---- MODULE Spec2Model ----
(***************************************************************************)
(* Model of chemcoord's ZmatCore (internal_coordinates/_zmat_class_core.py)*)
(* : the Z-matrix to Cartesian conversion, the singularity failure it      *)
(* raises, and the dummy-atom insertion / removal built on top of it.      *)
(*                                                                         *)
(* Geometry is exact integer geometry: every position is a point of the    *)
(* integer lattice, bond lengths are naturals, angles and dihedrals are    *)
(* multiples of 90 degrees.  A float that numpy would report as nan is the *)
(* value NaN (scalars) or NaNVec (vectors); an element of an np.empty      *)
(* array that was never written is Uninit.                                 *)
(***************************************************************************)
EXTENDS Integers, Sequences, FiniteSets, TLC

(***************************************************************************)
(* Scalars and vectors                                                     *)
(***************************************************************************)
\* numpy's nan as a scalar (no lattice value equals it)
NaN == -9999

\* A vector is <<x, y, z, tag>>: tag 0 a real vector, 1 all-nan, 2 never
\* written, 3 a real vector the lattice cannot hold (see GridOK).
Vec(x, y, z) == <<x, y, z, 0>>
NaNVec == <<0, 0, 0, 1>>
Uninit == <<0, 0, 0, 2>>
OffGrid == <<0, 0, 0, 3>>
zeros == Vec(0, 0, 0)

\* A value the lattice cannot hold exactly (a bond of sqrt(2), an angle of 45
\* degrees).  No reachable state of this model contains it (see GridOK).
Inexact == -9998

IsNaNVec(v) == v[4] # 0
IsOff(v) == v[4] = 3

\* What an operation on u and v gives when one of them is not a lattice vector
Taint(u, v) == IF IsOff(u) \/ IsOff(v) THEN OffGrid ELSE NaNVec

Sgn(x) == IF x > 0 THEN 1 ELSE IF x < 0 THEN -1 ELSE 0
Abs(x) == IF x < 0 THEN -x ELSE x

VAdd(u, v) ==
    IF IsNaNVec(u) \/ IsNaNVec(v) THEN Taint(u, v)
    ELSE Vec(u[1] + v[1], u[2] + v[2], u[3] + v[3])

VSub(u, v) ==
    IF IsNaNVec(u) \/ IsNaNVec(v) THEN Taint(u, v)
    ELSE Vec(u[1] - v[1], u[2] - v[2], u[3] - v[3])

VScale(k, v) ==
    IF k = Inexact \/ IsOff(v) THEN OffGrid
    ELSE IF k = NaN \/ IsNaNVec(v) THEN NaNVec
    ELSE Vec(k * v[1], k * v[2], k * v[3])

VDot(u, v) ==
    IF IsOff(u) \/ IsOff(v) THEN Inexact
    ELSE IF IsNaNVec(u) \/ IsNaNVec(v) THEN NaN
    ELSE u[1] * v[1] + u[2] * v[2] + u[3] * v[3]

\* xyz_functions._jit_cross / np.cross
_jit_cross(u, v) ==
    IF IsNaNVec(u) \/ IsNaNVec(v) THEN Taint(u, v)
    ELSE Vec(u[2] * v[3] - u[3] * v[2],
             u[3] * v[1] - u[1] * v[3],
             u[1] * v[2] - u[2] * v[1])

\* _jit_isclose(v, zeros).all(): nan is close to nothing
_jit_isclose_zeros(v) == ~IsNaNVec(v) /\ v = zeros

\* Does v lie along one of the three axes
IsAxis(v) ==
    /\ ~IsNaNVec(v)
    /\ Cardinality({k \in 1..3 : v[k] # 0}) = 1

\* v / norm(v).  0/0 is nan.  Exact for a vector along one axis, the only kind
\* the tables of this model produce (see GridOK).
_jit_normalize(v) ==
    IF IsOff(v) THEN OffGrid
    ELSE IF IsNaNVec(v) \/ v = zeros THEN NaNVec
    ELSE IF IsAxis(v) THEN Vec(Sgn(v[1]), Sgn(v[2]), Sgn(v[3]))
    ELSE OffGrid

\* Angles inside the kernel are radians, counted here in units of pi/2.
Pi == 2
radians(deg) == IF deg = NaN \/ deg = Inexact THEN deg ELSE deg \div 90
degrees(rad) == IF rad = NaN \/ rad = Inexact THEN rad ELSE rad * 90

Cos(q) == IF q = NaN \/ q = Inexact THEN q
          ELSE CASE q % 4 = 0 -> 1 [] q % 4 = 1 -> 0 [] q % 4 = 2 -> -1 [] OTHER -> 0
Sin(q) == IF q = NaN \/ q = Inexact THEN q
          ELSE CASE q % 4 = 0 -> 0 [] q % 4 = 1 -> 1 [] q % 4 = 2 -> 0 [] OTHER -> -1

\* np.dot(_jit_get_rotation_matrix(axis, angle), v): the right-handed rotation
\* of v about the unit vector axis (Rodrigues' formula).
Rotate(axis, angle, v) ==
    IF angle = Inexact THEN OffGrid
    ELSE IF angle = NaN \/ IsNaNVec(axis) \/ IsNaNVec(v) THEN Taint(axis, v)
    ELSE LET c == Cos(angle)
             s == Sin(angle)
         IN VAdd(VAdd(VScale(c, v), VScale(s, _jit_cross(axis, v))),
                 VScale((1 - c) * VDot(axis, v), axis))

(***************************************************************************)
(* Error codes and the absolute reference frame                            *)
(***************************************************************************)
ERR_CODE_OK == 0
ERR_CODE_InvalidReference == 1

\* constants.py: the labels of the absolute references are the smallest
\* int64 values; INT_MIN stands for -2**63.
INT_MIN == -1000
keys_below_are_abs_refs == INT_MIN + 100
origin == INT_MIN
e_x == INT_MIN + 1
e_y == INT_MIN + 2
e_z == INT_MIN + 3

_jit_absolute_refs(j) ==
    CASE j = origin -> Vec(0, 0, 0)
      [] j = e_x -> Vec(1, 0, 0)
      [] j = e_y -> Vec(0, 1, 0)
      [] j = e_z -> Vec(0, 0, 1)
      [] OTHER -> NaNVec

(***************************************************************************)
(* The placement kernel                                                    *)
(***************************************************************************)
\* The kernel without its first test (BA close to zero)
kernel_without_BA_test(references, zmat_values, row) ==
    LET bond == zmat_values[row + 1][1]
        angle == zmat_values[row + 1][2]
        dihedral == zmat_values[row + 1][3]
        vb == references[1]
        va == references[2]
        vd == references[3]
        BA == VSub(va, vb)
        ba == _jit_normalize(BA)
    IN IF angle = Pi
       THEN <<ERR_CODE_OK, VAdd(vb, VScale(bond, VScale(-1, ba)))>>
       ELSE IF angle = 0
       THEN <<ERR_CODE_OK, VAdd(vb, VScale(bond, ba))>>
       ELSE LET AD == VSub(vd, va)
                N1 == _jit_cross(BA, AD)
            IN IF _jit_isclose_zeros(N1) /\ ~_jit_isclose_zeros(BA)
               THEN <<ERR_CODE_InvalidReference, zeros>>
               ELSE LET n1 == _jit_normalize(N1)
                        d0 == VScale(bond, ba)
                        d1 == Rotate(n1, angle, d0)
                        d2 == Rotate(ba, dihedral, d1)
                    IN <<ERR_CODE_OK, VAdd(vb, d2)>>

\* The kernel without the branch for an angle of pi: pi takes the general path
kernel_without_pi_branch(references, zmat_values, row) ==
    LET bond == zmat_values[row + 1][1]
        angle == zmat_values[row + 1][2]
        dihedral == zmat_values[row + 1][3]
        vb == references[1]
        va == references[2]
        vd == references[3]
        BA == VSub(va, vb)
    IN IF _jit_isclose_zeros(BA)
       THEN <<ERR_CODE_InvalidReference, zeros>>
       ELSE LET ba == _jit_normalize(BA)
            IN IF angle = 0
               THEN <<ERR_CODE_OK, VAdd(vb, VScale(bond, ba))>>
               ELSE LET AD == VSub(vd, va)
                        N1 == _jit_cross(BA, AD)
                    IN IF _jit_isclose_zeros(N1)
                       THEN <<ERR_CODE_InvalidReference, zeros>>
                       ELSE LET n1 == _jit_normalize(N1)
                                d0 == VScale(bond, ba)
                                d1 == Rotate(n1, angle, d0)
                                d2 == Rotate(ba, dihedral, d1)
                            IN <<ERR_CODE_OK, VAdd(vb, d2)>>

\* The kernel with its two rotations in the other order: about ba by dihedral
\* first, then about n1 by angle
kernel_rotating_in_reverse_order(references, zmat_values, row) ==
    LET bond == zmat_values[row + 1][1]
        angle == zmat_values[row + 1][2]
        dihedral == zmat_values[row + 1][3]
        vb == references[1]
        va == references[2]
        vd == references[3]
        BA == VSub(va, vb)
    IN IF _jit_isclose_zeros(BA)
       THEN <<ERR_CODE_InvalidReference, zeros>>
       ELSE LET ba == _jit_normalize(BA)
            IN IF angle = Pi
               THEN <<ERR_CODE_OK, VAdd(vb, VScale(bond, VScale(-1, ba)))>>
               ELSE IF angle = 0
               THEN <<ERR_CODE_OK, VAdd(vb, VScale(bond, ba))>>
               ELSE LET AD == VSub(vd, va)
                        N1 == _jit_cross(BA, AD)
                    IN IF _jit_isclose_zeros(N1)
                       THEN <<ERR_CODE_InvalidReference, zeros>>
                       ELSE LET n1 == _jit_normalize(N1)
                                d0 == VScale(bond, ba)
                                d1 == Rotate(ba, dihedral, d0)
                                d2 == Rotate(n1, angle, d1)
                            IN <<ERR_CODE_OK, VAdd(vb, d2)>>

\* references = <<vb, va, vd>>, zmat_values[row + 1] = <<bond, angle, dihedral>>
\* (row counts from 0 as in the source).  Returns <<err, position>>.
_jit_calc_single_position(references, zmat_values, row) ==
    LET bond == zmat_values[row + 1][1]
        angle == zmat_values[row + 1][2]
        dihedral == zmat_values[row + 1][3]
        vb == references[1]
        va == references[2]
        vd == references[3]
        BA == VSub(va, vb)
    IN IF _jit_isclose_zeros(BA)
       THEN <<ERR_CODE_InvalidReference, zeros>>
       ELSE LET ba == _jit_normalize(BA)
            IN IF angle = Pi
               THEN <<ERR_CODE_OK, VAdd(vb, VScale(bond, VScale(-1, ba)))>>
               ELSE IF angle = 0
               THEN <<ERR_CODE_OK, VAdd(vb, VScale(bond, ba))>>
               ELSE LET AD == VSub(vd, va)
                        N1 == _jit_cross(BA, AD)
                    IN IF _jit_isclose_zeros(N1)
                       THEN <<ERR_CODE_InvalidReference, zeros>>
                       ELSE LET n1 == _jit_normalize(N1)
                                d0 == VScale(bond, ba)
                                d1 == Rotate(n1, angle, d0)
                                d2 == Rotate(ba, dihedral, d1)
                            IN <<ERR_CODE_OK, VAdd(vb, d2)>>

(***************************************************************************)
(* The frame of a Zmat                                                     *)
(*                                                                         *)
(* A frame is the sequence of its rows in table order; a row is            *)
(* [id, atom, b, a, d, bond, angle, dihedral].  The index of the pandas    *)
(* frame is the sequence of the rows' ids.                                 *)
(***************************************************************************)
index(frame) == [k \in 1..Len(frame) |-> frame[k].id]

ids(frame) == {frame[k].id : k \in 1..Len(frame)}

\* frame.index.get_loc(i), counted from 1
get_loc(frame, i) == CHOOSE k \in 1..Len(frame) : frame[k].id = i

\* frame.loc[i]
loc(frame, i) == frame[get_loc(frame, i)]

\* change_numbering(new_index=None, inplace=False, exclude_upper_triangle=True):
\* the ids become 0 .. n-1 and every b/a/d that names an id becomes the position
\* of that id, except the upper triangle of the first three rows, which is kept.
change_numbering(frame) ==
    LET new_index == [k \in 1..Len(frame) |-> k - 1]
        replace(v) == IF v \in ids(frame) THEN new_index[get_loc(frame, v)] ELSE v
    IN [k \in 1..Len(frame) |->
          LET i == k - 1
              r == frame[k]
          IN [r EXCEPT !.id = new_index[k],
                       !.b = IF i < 1 THEN r.b ELSE replace(r.b),
                       !.a = IF i < 2 THEN r.a ELSE replace(r.a),
                       !.d = IF i < 3 THEN r.d ELSE replace(r.d)]]

(***************************************************************************)
(* The sequential builder                                                  *)
(***************************************************************************)
\* positions[j] of the np.empty array: an element never written, or outside
\* the array, holds whatever the memory holds (garbage).
read_position(positions, j, garbage) ==
    IF j \in 0..(Len(positions) - 1) /\ positions[j + 1] # Uninit
    THEN positions[j + 1]
    ELSE garbage

RECURSIVE calc_rows(_, _, _, _, _)
calc_rows(c_table, zmat_values, row, positions, garbage) ==
    IF row = Len(c_table)
    THEN [err |-> ERR_CODE_OK, row |-> row - 1, positions |-> positions]
    ELSE LET ref_pos == [k \in 1..3 |->
                            LET j == c_table[row + 1][k]
                            IN IF j < keys_below_are_abs_refs
                               THEN _jit_absolute_refs(j)
                               ELSE read_position(positions, j, garbage)]
             res == _jit_calc_single_position(ref_pos, zmat_values, row)
         IN IF res[1] = ERR_CODE_OK
            THEN calc_rows(c_table, zmat_values, row + 1,
                           [positions EXCEPT ![row + 1] = res[2]], garbage)
            ELSE [err |-> res[1], row |-> row, positions |-> positions]

\* The builder with the first three rows set to fixed points of the absolute
\* frame instead of computed from their rows
calc_positions_first_three_fixed(c_table, zmat_values, garbage) ==
    LET fixed == <<_jit_absolute_refs(origin), _jit_absolute_refs(e_z),
                   _jit_absolute_refs(e_x)>>
        n == IF Len(c_table) < 3 THEN Len(c_table) ELSE 3
    IN calc_rows(c_table, zmat_values, n,
                 [k \in 1..Len(c_table) |-> IF k <= n THEN fixed[k] ELSE Uninit],
                 garbage)

\* Returns [err, row, positions]; rows count from 0.
_jit_calc_positions(c_table, zmat_values, garbage) ==
    calc_rows(c_table, zmat_values, 0, [k \in 1..Len(c_table) |-> Uninit], garbage)

(***************************************************************************)
(* get_cartesian                                                           *)
(***************************************************************************)
\* A Cartesian is the sequence of its atoms [id, atom, pos].
create_cartesian(frame, positions, row) ==
    [k \in 1..row |-> [id |-> frame[k].id, atom |-> frame[k].atom, pos |-> positions[k]]]

\* Lines 589-591: the arrays handed to the builder, from the renumbered copy
c_table_of(zm) == [k \in 1..Len(zm) |-> <<zm[k].b, zm[k].a, zm[k].d>>]

zmat_values_of(zm) ==
    [k \in 1..Len(zm) |->
        <<zm[k].bond, radians(zm[k].angle), radians(zm[k].dihedral)>>]

\* get_cartesian's raise with the renumbered label of the failing row in place
\* of rename[row]
cartesian_or_raise_renumbered(frame, conv) ==
    IF conv.err = ERR_CODE_InvalidReference
    THEN [raised |-> TRUE,
          i |-> conv.row,
          b |-> frame[conv.row + 1].b,
          a |-> frame[conv.row + 1].a,
          d |-> frame[conv.row + 1].d,
          cartesian |-> create_cartesian(frame, conv.positions, conv.row),
          conv |-> conv]
    ELSE [raised |-> FALSE, i |-> 0, b |-> 0, a |-> 0, d |-> 0,
          cartesian |-> create_cartesian(frame, conv.positions, conv.row + 1),
          conv |-> conv]

\* Lines 605-613: what get_cartesian makes of the builder's result conv.
\* raised = TRUE is the InvalidReference(i, b, a, d, already_built_cartesian);
\* raised = FALSE is the returned Cartesian.  conv is kept beside it.
cartesian_or_raise(frame, conv) ==
    IF conv.err = ERR_CODE_InvalidReference
    THEN [raised |-> TRUE,
          i |-> index(frame)[conv.row + 1],
          b |-> frame[conv.row + 1].b,
          a |-> frame[conv.row + 1].a,
          d |-> frame[conv.row + 1].d,
          cartesian |-> create_cartesian(frame, conv.positions, conv.row),
          conv |-> conv]
    ELSE [raised |-> FALSE, i |-> 0, b |-> 0, a |-> 0, d |-> 0,
          cartesian |-> create_cartesian(frame, conv.positions, conv.row + 1),
          conv |-> conv]

convert_renumbered(frame, zm, garbage) ==
    cartesian_or_raise(
        frame, _jit_calc_positions(c_table_of(zm), zmat_values_of(zm), garbage))

get_cartesian(frame, garbage) ==
    convert_renumbered(frame, change_numbering(frame), garbage)

\* The record of one call of the builder: the table it was called for and what
\* it returned (err, row, positions)
ConvRec(frame, c) ==
    [frame |-> frame, err |-> c.conv.err, row |-> c.conv.row,
     positions |-> c.conv.positions]


(***************************************************************************)
(* The Cartesian collaborator (cartesian_class_core.py)                    *)
(***************************************************************************)
cart_ids(cartesian) == {cartesian[k].id : k \in 1..Len(cartesian)}

\* Can _get_positions look label up: an absolute reference, or an atom it holds
has_position(cartesian, label) ==
    label < keys_below_are_abs_refs \/ label \in cart_ids(cartesian)

\* Cartesian._get_positions, for one label
_get_position(cartesian, label) ==
    IF label < keys_below_are_abs_refs
    THEN _jit_absolute_refs(label)
    ELSE cartesian[CHOOSE k \in 1..Len(cartesian) : cartesian[k].id = label].pos

\* np.linalg.norm of a lattice vector
norm(v) ==
    IF IsOff(v) THEN Inexact
    ELSE IF IsNaNVec(v) THEN NaN
    ELSE IF v = zeros THEN 0
    ELSE IF IsAxis(v) THEN Abs(v[1]) + Abs(v[2]) + Abs(v[3])
    ELSE Inexact

\* Cartesian._calculate_zmat_values for one construction row <<i, b, a, d>>:
\* the <<bond, angle, dihedral>> (degrees) of atom i against b, a, d, that is
\* the values from which the placement kernel puts i where it is.
_calculate_zmat_values(cartesian, row) ==
    LET vi == _get_position(cartesian, row[1])
        vb == _get_position(cartesian, row[2])
        va == _get_position(cartesian, row[3])
        vd == _get_position(cartesian, row[4])
        BI == VSub(vi, vb)
        BA == VSub(va, vb)
        AD == VSub(vd, va)
        ba == _jit_normalize(BA)
        n1 == _jit_normalize(_jit_cross(BA, AD))
        m == _jit_cross(n1, ba)
        along == VDot(BI, ba)
        onm == VDot(BI, m)
        onn == VDot(BI, n1)
        bond == norm(BI)
        angle == IF IsOff(BI) \/ IsOff(BA) THEN Inexact
                 ELSE IF IsNaNVec(BI) \/ IsNaNVec(BA) \/ BI = zeros \/ BA = zeros THEN NaN
                 ELSE IF ~IsAxis(BI) \/ ~IsAxis(BA) THEN Inexact
                 ELSE IF along > 0 THEN 0
                 ELSE IF along < 0 THEN 180
                 ELSE 90
        dihedral == IF angle = Inexact \/ IsOff(n1) THEN Inexact
                    ELSE IF angle = NaN \/ angle = 0 \/ angle = 180 \/ IsNaNVec(n1) THEN NaN
                    ELSE IF onm > 0 THEN 0
                    ELSE IF onm < 0 THEN 180
                    ELSE IF onn > 0 THEN 90
                    ELSE 270
    IN <<bond, angle, dihedral>>


(***************************************************************************)
(* A Zmat: its frame and its _metadata                                     *)
(*   [frame, has_dummies, last_valid_cartesian, dummy_manipulation_allowed]*)
(* has_dummies maps an atom id to [dummy_d, actual_d].                     *)
(*                                                                         *)
(* The operations below return [z, status, exception, notices, converted]: *)
(* the Zmat as the call leaves it, "ok" or the name of the exception that  *)
(* leaves the call, the InvalidReference when that is the exception, the   *)
(* warnings the call emitted, in order, and the frame of the last          *)
(* get_cartesian the call made (<<>> when it made none).                   *)
(***************************************************************************)
NoException == [raised |-> FALSE]

Result(z, status, exception, notices, converted) ==
    [z |-> z, status |-> status, exception |-> exception, notices |-> notices,
     converted |-> converted]

\* The InvalidReference get_cartesian raises, without the builder's trace
InvalidReference(c) ==
    [raised |-> TRUE, i |-> c.i, b |-> c.b, a |-> c.a, d |-> c.d,
     already_built_cartesian |-> c.cartesian]

\* The largest id of the atoms that are no dummies
max_index_of_atoms(frame) ==
    CHOOSE m \in {frame[k].id : k \in {e \in 1..Len(frame) : frame[e].atom # "X"}} :
        \A k \in 1..Len(frame) : frame[k].atom # "X" => frame[k].id <= m

\* max(self.index)
max_index(frame) == CHOOSE m \in ids(frame) : \A j \in ids(frame) : j <= m

\* v / np.linalg.norm(v): 0/0 is nan
unit(v) == _jit_normalize(v)

\* _insert_dummy_cart.get_normal_vec
get_normal_vec(cartesian, reference_labels) ==
    LET b_pos == _get_position(cartesian, reference_labels[1])
        a_pos == _get_position(cartesian, reference_labels[2])
        d_pos == _get_position(cartesian, reference_labels[3])
        BA == VSub(a_pos, b_pos)
        AD == VSub(d_pos, a_pos)
        N1 == _jit_cross(BA, AD)
    IN unit(N1)

\* cartesian.loc[i_dummy] = ('X', position): a new last row, or the row of that id
set_atom(cartesian, id, atom, pos) ==
    IF id \in cart_ids(cartesian)
    THEN [k \in 1..Len(cartesian) |->
             IF cartesian[k].id = id
             THEN [id |-> id, atom |-> atom, pos |-> pos]
             ELSE cartesian[k]]
    ELSE Append(cartesian, [id |-> id, atom |-> atom, pos |-> pos])

\* _insert_dummy_cart.insert_dummy: returns <<cartesian, i_dummy>>
insert_dummy_cart(frame, cartesian, reference_labels, n1) ==
    LET b_pos == _get_position(cartesian, reference_labels[1])
        a_pos == _get_position(cartesian, reference_labels[2])
        BA == VSub(a_pos, b_pos)
        N2 == _jit_cross(n1, BA)
        n2 == unit(N2)
        i_dummy == max_index(frame) + 1
    IN <<set_atom(cartesian, i_dummy, "X", VAdd(a_pos, n2)), i_dummy>>

\* The labels _insert_dummy_cart looks up, and whether each lookup finds its key
ref_labels_of(frame, i) == <<loc(frame, i).b, loc(frame, i).a, loc(frame, i).d>>

insert_dummy_cart_keys_ok(z, exception) ==
    /\ exception.i \in ids(z.frame)
    /\ \A k \in 1..3 :
          /\ has_position(z.last_valid_cartesian, ref_labels_of(z.frame, exception.i)[k])
          /\ has_position(exception.already_built_cartesian,
                          ref_labels_of(z.frame, exception.i)[k])

\* _insert_dummy_cart(exception), last_valid_cartesian=None
_insert_dummy_cart(z, exception) ==
    LET ref_labels == ref_labels_of(z.frame, exception.i)
        n1 == get_normal_vec(z.last_valid_cartesian, ref_labels)
    IN insert_dummy_cart(z.frame, exception.already_built_cartesian, ref_labels, n1)

\* insert_row with end = df.iloc[pos + 1:]: the row at pos is replaced by its
\* relabelled copy
insert_row_over(df, pos, key) ==
    LET middle == [df[pos + 1] EXCEPT !.id = key]
    IN SubSeq(df, 1, pos) \o <<middle>> \o SubSeq(df, pos + 2, Len(df))

\* _insert_dummy_zmat.insert_row, pos < len(df): a copy of the row at pos, with
\* the index key, is put before it (pos counts from 0)
insert_row(df, pos, key) ==
    LET middle == [df[pos + 1] EXCEPT !.id = key]
    IN SubSeq(df, 1, pos) \o <<middle>> \o SubSeq(df, pos + 1, Len(df))

\* The warning raise_warning(i, dummy_d) emits
InsertNotice(i, dummy_d) == [kind |-> "inserted", i |-> i, dummy_d |-> dummy_d]

\* Lines 490-495 of insert_dummy: in the frame with the new row, atom i gets
\* the dummy as d and the dummy row gets its label, the references ref of
\* actual_d's row, and its values
fill_dummy_row(zframe, i, dummy_d, ref, zmat_values) ==
    [k \in 1..Len(zframe) |->
        IF zframe[k].id = i
        THEN [zframe[k] EXCEPT !.d = dummy_d]
        ELSE IF zframe[k].id = dummy_d
        THEN [zframe[k] EXCEPT !.atom = "X",
                               !.b = ref.b, !.a = ref.a, !.d = ref.d,
                               !.bond = zmat_values[1],
                               !.angle = zmat_values[2],
                               !.dihedral = zmat_values[3]]
        ELSE zframe[k]]

\* zmat._metadata['has_dummies'][i] = {'dummy_d': dummy_d, 'actual_d': actual_d}
set_has_dummies(has_dummies, i, dummy_d, actual_d) ==
    [k \in (DOMAIN has_dummies) \cup {i} |->
        IF k = i THEN [dummy_d |-> dummy_d, actual_d |-> actual_d]
        ELSE has_dummies[k]]

\* insert_dummy once actual_d and its row ref are known to exist
insert_dummy_row(z, i, dummy_cart, dummy_d, actual_d, ref) ==
    Result([z EXCEPT
               !.frame = fill_dummy_row(
                   insert_row(z.frame, get_loc(z.frame, i) - 1, dummy_d),
                   i, dummy_d, ref,
                   _calculate_zmat_values(dummy_cart, <<dummy_d, ref.b, ref.a, ref.d>>)),
               !.has_dummies = set_has_dummies(z.has_dummies, i, dummy_d, actual_d)],
           "ok", NoException, <<InsertNotice(i, dummy_d)>>, <<>>)

\* _insert_dummy_zmat.insert_dummy(zmat, i, dummy_cart, dummy_d)
insert_dummy(z, i, dummy_cart, dummy_d) ==
    IF loc(z.frame, i).d \notin ids(z.frame)
       \/ \E k \in {loc(z.frame, loc(z.frame, i).d).b,
                    loc(z.frame, loc(z.frame, i).d).a,
                    loc(z.frame, loc(z.frame, i).d).d} : ~has_position(dummy_cart, k)
    THEN Result(z, "KeyError", NoException, <<>>, <<>>)
    ELSE insert_dummy_row(z, i, dummy_cart, dummy_d,
                          loc(z.frame, i).d, loc(z.frame, loc(z.frame, i).d))


\* removable_keys with the d the row holds (the dummy) in place of the
\* recorded actual_d (without line 522)
removable_keys_by_live_d(z, cartesian) ==
    {k \in DOMAIN z.has_dummies :
        LET b_pos == _get_position(cartesian, loc(z.frame, k).b)
            a_pos == _get_position(cartesian, loc(z.frame, k).a)
            d_pos == _get_position(cartesian, loc(z.frame, k).d)
            BA == VSub(a_pos, b_pos)
            AD == VSub(d_pos, a_pos)
        IN ~_jit_isclose_zeros(_jit_cross(BA, AD))}

\* _has_removable_dummies, after its get_cartesian returned cartesian: the keys
\* whose BA x AD, formed with the recorded actual_d, is not close to zero
removable_keys(z, cartesian) ==
    {k \in DOMAIN z.has_dummies :
        LET b_pos == _get_position(cartesian, loc(z.frame, k).b)
            a_pos == _get_position(cartesian, loc(z.frame, k).a)
            d_pos == _get_position(cartesian, z.has_dummies[k].actual_d)
            BA == VSub(a_pos, b_pos)
            AD == VSub(d_pos, a_pos)
        IN ~_jit_isclose_zeros(_jit_cross(BA, AD))}

\* Does every label _has_removable_dummies looks up with .loc exist (xyz is a
\* plain frame: an absolute reference is no key of it)
removable_keys_ok(z, cartesian) ==
    \A k \in DOMAIN z.has_dummies :
        /\ k \in ids(z.frame)
        /\ loc(z.frame, k).b \in cart_ids(cartesian)
        /\ loc(z.frame, k).a \in cart_ids(cartesian)
        /\ z.has_dummies[k].actual_d \in cart_ids(cartesian)

\* _has_removable_dummies, c being what its get_cartesian gave:
\* [status, exception, keys, converted]
has_removable_given(z, c) ==
    IF \E k \in DOMAIN z.has_dummies : k \notin ids(z.frame)
    THEN [status |-> "KeyError", exception |-> NoException, keys |-> {},
          converted |-> <<>>]
    ELSE IF c.raised
    THEN [status |-> "InvalidReference", exception |-> InvalidReference(c),
          keys |-> {}, converted |-> ConvRec(z.frame, c)]
    ELSE IF ~removable_keys_ok(z, c.cartesian)
    THEN [status |-> "KeyError", exception |-> NoException, keys |-> {},
          converted |-> ConvRec(z.frame, c)]
    ELSE [status |-> "ok", exception |-> NoException,
          keys |-> removable_keys(z, c.cartesian),
          converted |-> ConvRec(z.frame, c)]

_has_removable_dummies(z, garbage) ==
    has_removable_given(z, get_cartesian(z.frame, garbage))

\* The warning _remove_dummies emits
RemoveNotice(to_remove) == [kind |-> "removed", to_remove |-> to_remove]

\* _remove_dummies without line 544
restore_d_skipped(z, to_remove) == z

\* zmat.unsafe_loc[to_remove, 'd'] = actual_d  (line 544)
restore_d(z, to_remove) ==
    [z EXCEPT !.frame =
        [k \in 1..Len(z.frame) |->
            IF z.frame[k].id \in to_remove
            THEN [z.frame[k] EXCEPT !.d = z.has_dummies[z.frame[k].id].actual_d]
            ELSE z.frame[k]]]

\* zmat.unsafe_loc[to_remove, ['bond', 'angle', 'dihedral']] = zmat_values, the
\* values _calculate_zmat_values derives from cartesian against b, a, actual_d
recompute_values(z, to_remove, cartesian, c_table) ==
    [z EXCEPT !.frame =
        [k \in 1..Len(z.frame) |->
            IF z.frame[k].id \in to_remove
            THEN LET v == _calculate_zmat_values(cartesian, c_table[z.frame[k].id])
                 IN [z.frame[k] EXCEPT !.bond = v[1], !.angle = v[2], !.dihedral = v[3]]
            ELSE z.frame[k]]]

\* zmat._frame.drop(labels, inplace=True)
drop(frame, labels) == SelectSeq(frame, LAMBDA r : r.id \notin labels)

\* for k in to_remove: has_dummies.pop(k)
pop_all(has_dummies, to_remove) ==
    [k \in (DOMAIN has_dummies) \ to_remove |-> has_dummies[k]]

\* c_table of _remove_dummies (lines 542-543): for each k the row
\* <<k, b, a, actual_d>>
removal_c_table(z, to_remove) ==
    [k \in to_remove |->
        <<k, loc(z.frame, k).b, loc(z.frame, k).a, z.has_dummies[k].actual_d>>]

\* Lines 548-553: the dummy rows are dropped, the warning is emitted, the
\* entries are popped.  z2 is the Zmat with the recomputed values.
drop_dummies(z2, to_remove, dummies, converted) ==
    IF \E x \in dummies : x \notin ids(z2.frame)
    THEN Result(z2, "KeyError", NoException, <<>>, converted)
    ELSE Result([z2 EXCEPT !.frame = drop(z2.frame, dummies),
                           !.has_dummies = pop_all(z2.has_dummies, to_remove)],
                "ok", NoException, <<RemoveNotice(to_remove)>>, converted)

\* Lines 546-553: z1 is the Zmat with d restored, c what its get_cartesian gave
remove_converted(z1, to_remove, c_table, c) ==
    IF c.raised
    THEN Result(z1, "InvalidReference", InvalidReference(c), <<>>,
                ConvRec(z1.frame, c))
    ELSE IF \E k \in to_remove : \E j \in 1..4 :
                ~has_position(c.cartesian, c_table[k][j])
    THEN Result(z1, "KeyError", NoException, <<>>, ConvRec(z1.frame, c))
    ELSE drop_dummies(recompute_values(z1, to_remove, c.cartesian, c_table),
                      to_remove,
                      {z1.has_dummies[k].dummy_d : k \in to_remove},
                      ConvRec(z1.frame, c))

\* Line 544 done (z1), line 546 next
remove_restored(z1, to_remove, c_table, garbage) ==
    remove_converted(z1, to_remove, c_table, get_cartesian(z1.frame, garbage))

\* _remove_dummies with a non-empty to_remove (lines 540-553), working on z
remove_listed(z, to_remove, garbage) ==
    IF \E k \in to_remove : k \notin ids(z.frame) \/ k \notin DOMAIN z.has_dummies
    THEN Result(z, "KeyError", NoException, <<>>, <<>>)
    ELSE remove_restored(restore_d(z, to_remove), to_remove,
                         removal_c_table(z, to_remove), garbage)

\* _remove_dummies without the early return of lines 535-539
remove_given_without_return(z, h, garbage) ==
    IF h.status # "ok" THEN Result(z, h.status, h.exception, <<>>, h.converted)
    ELSE remove_listed(z, h.keys, garbage)

\* Lines 533-539: h is what _has_removable_dummies gave; with nothing to remove
\* the call returns at once
remove_given(z, h, garbage) ==
    IF h.status # "ok" THEN Result(z, h.status, h.exception, <<>>, h.converted)
    ELSE IF h.keys = {} THEN Result(z, "ok", NoException, <<>>, h.converted)
    ELSE remove_listed(z, h.keys, garbage)

\* _remove_dummies(to_remove=None, inplace=True)
_remove_dummies(z, garbage) ==
    remove_given(z, _has_removable_dummies(z, garbage), garbage)

\* Lines 510-513 of _insert_dummy_zmat, c being what get_cartesian gave.  Status
\* "recurse" is the InvalidReference caught there, which the method hands to
\* itself (line 513).
retry_given(r, c) ==
    IF c.raised
    THEN Result(r.z, "recurse", InvalidReference(c), r.notices,
                ConvRec(r.z.frame, c))
    ELSE Result([r.z EXCEPT !.last_valid_cartesian = c.cartesian],
                "ok", NoException, r.notices, ConvRec(r.z.frame, c))

\* Lines 510-513, after the insertion or removal r (an exception of lines
\* 504-508 leaves the method)
retry_conversion(r, garbage) ==
    IF r.status # "ok" THEN r ELSE retry_given(r, get_cartesian(r.z.frame, garbage))

\* insert_dummy(zmat, exception.index, *zmat._insert_dummy_cart(exception))
insert_dummy_of(z, exception, dc) == insert_dummy(z, exception.i, dc[1], dc[2])

\* Lines 504-508: the removal of the dummy of exception.index when it has one,
\* else the insertion of one
toggle_dummy(z, exception, garbage) ==
    IF exception.i \in DOMAIN z.has_dummies
    THEN remove_listed(z, {exception.i}, garbage)
    ELSE IF ~insert_dummy_cart_keys_ok(z, exception)
    THEN Result(z, "KeyError", NoException, <<>>, <<>>)
    ELSE insert_dummy_of(z, exception, _insert_dummy_cart(z, exception))

\* One call of _insert_dummy_zmat(exception, inplace=True), up to the call of
\* itself on line 513
_insert_dummy_zmat(z, exception, garbage) ==
    retry_conversion(toggle_dummy(z, exception, garbage), garbage)


(***************************************************************************)
(* Symbolic entries and subs                                               *)
(***************************************************************************)
\* Two sympy symbols a value column may hold
theta == -7001
phi == -7002
Symbols == {theta, phi}

has_symbols(frame) ==
    \E k \in 1..Len(frame) :
        frame[k].bond \in Symbols \/ frame[k].angle \in Symbols
                                  \/ frame[k].dihedral \in Symbols

\* subs_function: x.subs(symb_expr, value), then float(x)
subs_function(x, symb_expr, value) == IF x = symb_expr THEN value ELSE x

\* Lines 377-384 of subs: the substitution in the three value columns
substitute(frame, symb_expr, value) ==
    [k \in 1..Len(frame) |->
        [frame[k] EXCEPT !.bond = subs_function(@, symb_expr, value),
                         !.angle = subs_function(@, symb_expr, value),
                         !.dihedral = subs_function(@, symb_expr, value)]]

\* copy(): the frame is copied, _metadata is deep-copied
copy(z) == z

(***************************************************************************)
(* The tables the model starts from                                        *)
(***************************************************************************)
Row(id, atom, b, a, d, bond, angle, dihedral) ==
    [id |-> id, atom |-> atom, b |-> b, a |-> a, d |-> d,
     bond |-> bond, angle |-> angle, dihedral |-> dihedral]

\* The values subs puts in a cell of a column
BondVals == {0, 1}
AngleVals == {0, 90, 180}
DihedralVals == {0, 90}

\* Five atoms; the ids are not in table order.  Atom 2 sits at the origin; every
\* later atom is bound to an earlier one, its angle reference is bound to its bond
\* reference and its dihedral reference to its angle reference.
Table(angles, dihedrals) ==
    << Row(2, "C", origin, e_z, e_x, 0, 0, 0),
       Row(4, "C", 2, e_z, e_x, 1, angles[1], dihedrals[1]),
       Row(1, "C", 2, 4, e_x, 1, angles[2], dihedrals[2]),
       Row(5, "H", 1, 2, 4, 1, angles[3], dihedrals[3]),
       Row(3, "H", 2, 1, 5, 1, angles[4], dihedrals[4]) >>

InitDihedrals == <<0, 0, 90, 90>>

\* The angles of the starting tables: a bent molecule, and one whose last two
\* atoms lie on the line of their references
InitAngles == {<<0, 90, 90, 90>>, <<0, 90, 180, 180>>}

\* The tables get_cartesian converts without a failure
InitTables ==
    {t \in {Table(angles, InitDihedrals) : angles \in InitAngles} :
        ~get_cartesian(t, NaNVec).raised}

\* The entries the caller makes symbolic: <<atom id, column>>
Cells ==
    {<<1, "bond">>, <<1, "angle">>, <<5, "angle">>, <<3, "angle">>,
     <<5, "dihedral">>}

\* What an element of np.empty that was never written may hold
GarbageVecs == {Vec(0, 0, 0), Vec(1, 0, 0), Vec(1, 0, 1), NaNVec}

\* Does the builder read an element of positions it has not written: some row
\* of the renumbered table names a row that is not before it
reads_unwritten(frame) ==
    LET zm == change_numbering(frame)
    IN \E k \in 1..Len(zm) : \E j \in {zm[k].b, zm[k].a, zm[k].d} :
          j >= keys_below_are_abs_refs /\ j >= k - 1

\* The garbage a conversion of frame can meet
GarbageFor(frame) == IF reads_unwritten(frame) THEN GarbageVecs ELSE {NaNVec}


(***************************************************************************)
(* State                                                                   *)
(***************************************************************************)
VARIABLES
    zmat,      \* the Zmat the caller holds
    out,       \* the Zmat the running operation works on (subs: its copy)
    pc,        \* "idle", or where the running subs stands: "insert", "remove"
    exc,       \* the InvalidReference being handled, or the one last raised
    outcome,   \* how the last operation ended: "ok" or the exception's name
    notices,   \* the warnings of the running (or last) operation, in order
    conv,      \* the last call of the builder: [frame, err, row, positions]
    depth,     \* calls of _insert_dummy_zmat made by the running operation
    orig,      \* the <<id, atom>> of the atoms the table started with
    checked,   \* the frame the running (or last) subs checked; <<>>: none
    nops,      \* number of entries made symbolic so far
    aliased,   \* the parts of out that are the very objects zmat holds
    called     \* on what the last call worked: "copy" (of zmat), "out", "zmat";
               \* "none" where the calls are not told apart

vars == <<zmat, out, pc, exc, outcome, notices, conv, depth, orig, checked, nops,
          aliased, called>>

\* How many entries the caller makes symbolic (and then substitutes)
MaxOps == 2

\* Bound on the depth of _insert_dummy_zmat's recursion explored
MaxDepth == 6

NoConv == [frame |-> <<>>, err |-> ERR_CODE_OK, row |-> -1, positions |-> <<>>]

Init ==
    /\ \E t \in InitTables, allowed \in BOOLEAN :
          zmat = [frame |-> t,
                  has_dummies |-> <<>>,
                  last_valid_cartesian |-> get_cartesian(t, NaNVec).cartesian,
                  dummy_manipulation_allowed |-> allowed]
    /\ out = zmat
    /\ pc = "idle"
    /\ exc = NoException
    /\ outcome = "ok"
    /\ notices = <<>>
    /\ conv = NoConv
    /\ depth = 0
    /\ orig = [k \in 1..Len(zmat.frame) |-> <<zmat.frame[k].id, zmat.frame[k].atom>>]
    /\ checked = <<>>
    /\ nops = 0
    /\ aliased = {}
    /\ called = "none"

\* zmat.unsafe_loc[i, col] = theta: the caller makes one entry of a real atom
\* symbolic (the indexers belong to _indexers.py)
unsafe_loc_set(i, col) ==
    /\ pc = "idle"
    /\ nops < MaxOps
    /\ ~has_symbols(zmat.frame)
    /\ i \in ids(zmat.frame)
    /\ zmat' = [zmat EXCEPT !.frame[get_loc(zmat.frame, i)][col] = theta]
    /\ nops' = nops + 1
    /\ UNCHANGED <<out, pc, exc, outcome, notices, conv, depth, orig, checked,
                   aliased, called>>

\* The column that holds a symbol, and the values subs may put there
symbolic_column(frame) ==
    IF \E k \in 1..Len(frame) : frame[k].bond \in Symbols THEN "bond"
    ELSE IF \E k \in 1..Len(frame) : frame[k].angle \in Symbols THEN "angle"
    ELSE "dihedral"

ValuesFor(col) ==
    IF col = "bond" THEN BondVals
    ELSE IF col = "angle" THEN AngleVals
    ELSE DihedralVals

\* How a call ends: the caller binds what a normal return gives; an exception
\* leaves the caller's Zmat as it was
Finish(r) ==
    /\ out' = r.z
    /\ zmat' = IF r.status = "ok" THEN r.z ELSE zmat
    /\ outcome' = r.status
    /\ exc' = r.exception
    /\ pc' = "idle"
    /\ conv' = IF r.converted = <<>> THEN conv ELSE r.converted

\* subs without the test of dummy_manipulation_allowed (line 392)
subs_checks_always_recover(out0, c) ==
    IF ~c.raised
    THEN Finish(Result([out0 EXCEPT !.last_valid_cartesian = c.cartesian],
                       "ok", NoException, <<>>, ConvRec(out0.frame, c)))
    ELSE /\ out' = out0
         /\ exc' = InvalidReference(c)
         /\ pc' = "insert"
         /\ conv' = ConvRec(out0.frame, c)
         /\ UNCHANGED <<zmat, outcome>>

\* Lines 385-395 of subs: out0 is the substituted copy and c what
\* out.get_cartesian() gave
subs_checks(out0, c) ==
    IF ~c.raised
    THEN Finish(Result([out0 EXCEPT !.last_valid_cartesian = c.cartesian],
                       "ok", NoException, <<>>, ConvRec(out0.frame, c)))
    ELSE IF out0.dummy_manipulation_allowed
    THEN \* out._manipulate_dummies(e, inplace=True) begins
         /\ out' = out0
         /\ exc' = InvalidReference(c)
         /\ pc' = "insert"
         /\ conv' = ConvRec(out0.frame, c)
         /\ UNCHANGED <<zmat, outcome>>
    ELSE Finish(Result(out0, "InvalidReference", InvalidReference(c), <<>>,
                       ConvRec(out0.frame, c)))

\* subs after lines 377-384: out0 is the substituted copy
subs_return(out0, perform_checks, garbage) ==
    IF ~perform_checks \/ has_symbols(out0.frame)
    THEN \* no check, or the AttributeError of an unevaluated symbol is passed
         Finish(Result(out0, "ok", NoException, <<>>, <<>>))
    ELSE subs_checks(out0, get_cartesian(out0.frame, garbage))

\* zmat = zmat.subs(symb_expr, value, perform_checks)
subs(symb_expr, value, perform_checks, garbage) ==
    /\ pc = "idle"
    /\ has_symbols(zmat.frame)
    /\ subs_return([copy(zmat) EXCEPT !.frame = substitute(@, symb_expr, value)],
                   perform_checks, garbage)
    /\ checked' = IF perform_checks /\ ~has_symbols(substitute(zmat.frame, symb_expr, value))
                  THEN substitute(zmat.frame, symb_expr, value)
                  ELSE <<>>
    /\ depth' = 0
    /\ notices' = <<>>
    /\ UNCHANGED <<orig, nops, aliased, called>>

\* What a call r of _insert_dummy_zmat leaves behind
insert_dummy_zmat_return(r) ==
    /\ notices' = notices \o r.notices
    /\ IF r.status = "recurse"
       THEN \* line 513: the method calls itself with the new exception
            /\ out' = r.z
            /\ exc' = r.exception
            /\ pc' = "insert"
            /\ conv' = r.converted
            /\ UNCHANGED <<zmat, outcome>>
       ELSE IF r.status = "ok"
       THEN \* every call returns; _manipulate_dummies goes on to line 560
            /\ out' = r.z
            /\ exc' = NoException
            /\ pc' = "remove"
            /\ conv' = r.converted
            /\ UNCHANGED <<zmat, outcome>>
       ELSE Finish(r)

\* One call of out._insert_dummy_zmat(exc, inplace=True); an InvalidReference of
\* the conversion it tries is handled by the next call
insert_dummy_zmat_call(garbage) ==
    /\ pc = "insert"
    /\ depth < MaxDepth
    /\ insert_dummy_zmat_return(_insert_dummy_zmat(out, exc, garbage))
    /\ depth' = depth + 1
    /\ UNCHANGED <<orig, checked, nops, aliased, called>>

\* What out._remove_dummies(inplace=True) = r leaves behind when subs called it
remove_dummies_return(r) ==
    /\ notices' = notices \o r.notices
    /\ Finish(r)

\* out._remove_dummies(inplace=True), line 560 of _manipulate_dummies; subs then
\* returns out
remove_dummies_call(garbage) ==
    /\ pc = "remove"
    /\ remove_dummies_return(_remove_dummies(out, garbage))
    /\ UNCHANGED <<depth, orig, checked, nops, aliased, called>>

\* What zmat._remove_dummies(inplace=True) = r leaves behind: the Zmat itself
\* was worked on, so it keeps what was written before an exception
remove_dummies_inplace_return(r) ==
    /\ notices' = r.notices
    /\ zmat' = r.z
    /\ out' = r.z
    /\ outcome' = r.status
    /\ exc' = r.exception
    /\ conv' = IF r.converted = <<>> THEN conv ELSE r.converted

\* zmat._remove_dummies(inplace=True), called by the caller on the Zmat it holds
remove_dummies_inplace(garbage) ==
    /\ pc = "idle"
    /\ ~has_symbols(zmat.frame)
    /\ remove_dummies_inplace_return(_remove_dummies(zmat, garbage))
    /\ checked' = <<>>
    /\ UNCHANGED <<pc, depth, orig, nops, aliased, called>>

Next ==
    \/ \E cell \in Cells : unsafe_loc_set(cell[1], cell[2])
    \/ \E symb_expr \in Symbols, perform_checks \in BOOLEAN :
          \E value \in ValuesFor(symbolic_column(zmat.frame)),
             garbage \in GarbageFor(zmat.frame) :
                subs(symb_expr, value, perform_checks, garbage)
    \/ \E garbage \in GarbageFor(out.frame) : insert_dummy_zmat_call(garbage)
    \/ \E garbage \in GarbageFor(out.frame) : remove_dummies_call(garbage)
    \/ \E garbage \in GarbageFor(zmat.frame) : remove_dummies_inplace(garbage)

Spec == Init /\ [][Next]_vars

(***************************************************************************)
(* The lattice holds every value the model computes                        *)
(***************************************************************************)
HasInexact(frame) ==
    \E k \in 1..Len(frame) :
        Inexact \in {frame[k].bond, frame[k].angle, frame[k].dihedral}

HasOff(cartesian) == \E k \in 1..Len(cartesian) : IsOff(cartesian[k].pos)

\* No table holds a value, and no Cartesian a position, that the lattice cannot
\* represent: the integer geometry is the geometry of the code on these tables
GridOK ==
    /\ ~HasInexact(zmat.frame) /\ ~HasInexact(out.frame)
    /\ ~HasOff(zmat.last_valid_cartesian) /\ ~HasOff(out.last_valid_cartesian)
    /\ \A k \in 1..Len(conv.positions) : ~IsOff(conv.positions[k])
    /\ exc.raised => ~HasOff(exc.already_built_cartesian)

(***************************************************************************)
(* What the claims speak of                                                *)
(***************************************************************************)
\* The position the builder's last call held for reference slot (1: b, 2: a,
\* 3: d) of the row at table position k
RefPos(k, slot) ==
    LET j == c_table_of(change_numbering(conv.frame))[k][slot]
    IN IF j < keys_below_are_abs_refs THEN _jit_absolute_refs(j)
       ELSE conv.positions[j + 1]

\* The bond-reference vector BA of row k is numerically zero
BAZero(k) == VSub(RefPos(k, 2), RefPos(k, 1)) = zeros

\* BA x AD of row k is numerically zero
N1Zero(k) ==
    _jit_cross(VSub(RefPos(k, 2), RefPos(k, 1)),
               VSub(RefPos(k, 3), RefPos(k, 2))) = zeros

\* Row k signals a singularity
Singular(k) ==
    BAZero(k) \/ (conv.frame[k].angle \notin {0, 180} /\ N1Zero(k))

\* The table position at which the builder's last call failed
FailedAt == conv.row + 1

\* The table positions holding an angle of 180 degrees
At180(frame) == {k \in 1..Len(frame) : frame[k].angle = 180}

\* Exactly one atom at 180 degrees, and not among the first three
OneAt180(frame) ==
    /\ Cardinality(At180(frame)) = 1
    /\ \A k \in At180(frame) : k > 3

\* The running subs has just made its direct conversion of checked, which raised
DirectRaised ==
    /\ checked # <<>>
    /\ depth = 0
    /\ pc = "insert" \/ (pc = "idle" /\ outcome = "InvalidReference")

\* The last subs made its direct conversion of checked, which passed
DirectPassed ==
    checked # <<>> /\ depth = 0 /\ pc = "idle" /\ outcome = "ok"

\* A subs that went into recovery has ended
RecoveryEnded == checked # <<>> /\ depth > 0 /\ pc = "idle"

\* The <<id, label>> of the atoms of frame that are not dummies, in table order
NonDummies(frame) ==
    LET real == SelectSeq(frame, LAMBDA r : r.atom # "X")
    IN [k \in 1..Len(real) |-> <<real[k].id, real[k].atom>>]

NoticesOf(kind) == SelectSeq(notices, LAMBDA n : n.kind = kind)

(***************************************************************************)
(* C2                                                                      *)
(***************************************************************************)
\* C2: the InvalidReference that get_cartesian raises for a singularity at
\* table position r (counted from 0) carries the id of that atom as the table
\* has it (not the renumbered one), that atom's stored b, a and d, and a
\* Cartesian of exactly the r atoms before it, with their ids, labels and the
\* positions the builder gave them, in table order.
C2_FailurePayload ==
    exc.raised =>
        /\ conv.err = ERR_CODE_InvalidReference
        /\ exc.i = conv.frame[FailedAt].id
        /\ exc.b = conv.frame[FailedAt].b
        /\ exc.a = conv.frame[FailedAt].a
        /\ exc.d = conv.frame[FailedAt].d
        /\ Len(exc.already_built_cartesian) = conv.row
        /\ \A k \in 1..conv.row :
              /\ exc.already_built_cartesian[k].id = conv.frame[k].id
              /\ exc.already_built_cartesian[k].atom = conv.frame[k].atom
              /\ exc.already_built_cartesian[k].pos = conv.positions[k]

\* A failure at a row whose id differs from its renumbered label, behind a
\* dummy row
C2_Witness ==
    /\ exc.raised
    /\ conv.row >= 3
    /\ exc.i # conv.row
    /\ \E k \in 1..conv.row : conv.frame[k].atom = "X"

(***************************************************************************)
(* C3                                                                      *)
(***************************************************************************)
\* C3: the builder places the rows in table order and stops at the first row
\* that signals a singularity (BA zero, or the angle neither 0 nor pi and
\* BA x AD zero): the row it reports is the first singular one, every row
\* before it holds a position, no row from it on does; and when no row is
\* singular every row holds a position.
C3_StopsAtFirstSingular ==
    conv.frame # <<>> =>
        IF conv.err = ERR_CODE_InvalidReference
        THEN /\ Singular(FailedAt)
             /\ \A k \in 1..conv.row :
                   ~Singular(k) /\ conv.positions[k] # Uninit
             /\ \A k \in FailedAt..Len(conv.frame) : conv.positions[k] = Uninit
        ELSE /\ conv.row = Len(conv.frame) - 1
             /\ \A k \in 1..Len(conv.frame) :
                   ~Singular(k) /\ conv.positions[k] # Uninit

\* The builder stopped at a row with BA zero, with a row after it left unplaced
C3_Witness ==
    /\ conv.err = ERR_CODE_InvalidReference
    /\ BAZero(FailedAt)
    /\ FailedAt < Len(conv.frame)

C1_EndsConvertedOrUnrecoverable ==
    /\ pc = "insert" => depth < MaxDepth
    /\ RecoveryEnded => outcome \in {"ok", "UnrecoverableGeometry"}

(***************************************************************************)
(* C5                                                                      *)
(***************************************************************************)
NoDummyRows(frame) == \A k \in 1..Len(frame) : frame[k].atom # "X"

PositiveBonds(frame) == \A k \in 2..Len(frame) : frame[k].bond > 0

\* C5: for a table (without dummies, bonds positive) with exactly one atom at
\* 180 degrees, not among the first three, whose direct conversion fails, the
\* recovery completes normally, leaves exactly one has_dummies entry, emits
\* exactly one insertion notice, and the atoms that are not dummies are the
\* original ones in the original order.
C5_OneCycleOneDummy ==
    (/\ RecoveryEnded
     /\ OneAt180(checked)
     /\ NoDummyRows(checked)
     /\ PositiveBonds(checked)) =>
        /\ outcome = "ok"
        /\ Cardinality(DOMAIN zmat.has_dummies) = 1
        /\ Len(NoticesOf("inserted")) = 1
        /\ NonDummies(zmat.frame) = orig

(***************************************************************************)
(* C6                                                                      *)
(***************************************************************************)
\* C6: whatever was inserted, removed or recovered, the atoms of the table
\* that are not dummies are the original atoms, with their ids and labels, in
\* their original order, in the caller's Zmat and in the one being worked on.
C6_AtomsPreserved ==
    /\ NonDummies(zmat.frame) = orig
    /\ NonDummies(out.frame) = orig

\* A recovery has ended well with a dummy row inserted among the atoms
C6_Witness ==
    /\ RecoveryEnded
    /\ outcome = "ok"
    /\ NoticesOf("inserted") # <<>>
    /\ Len(zmat.frame) > Len(orig)
    /\ \E k \in 1..(Len(zmat.frame) - 1) : zmat.frame[k].atom = "X"

(***************************************************************************)
(* C7                                                                      *)
(***************************************************************************)
\* The Zmat a call of _remove_dummies beginning in this state works on
Worked == IF pc = "idle" THEN zmat ELSE out

\* This step emits a removal notice
RemovalStep ==
    /\ notices' # notices
    /\ notices' # <<>>
    /\ notices'[Len(notices')].kind = "removed"

\* C7: when dummies are removed, then for every atom i whose dummy is removed
\* the d of i is afterwards the actual_d recorded at the insertion, the
\* dummy's row is gone, i is no key of has_dummies any more, and the table has
\* one row less for each removed dummy.
C7_RemovalRestores ==
    [][RemovalStep =>
          LET to_remove == notices'[Len(notices')].to_remove
          IN /\ \A i \in to_remove :
                   /\ i \in DOMAIN Worked.has_dummies
                   /\ loc(out'.frame, i).d = Worked.has_dummies[i].actual_d
                   /\ Worked.has_dummies[i].dummy_d \notin ids(out'.frame)
                   /\ i \notin DOMAIN out'.has_dummies
             /\ Len(out'.frame) = Len(Worked.frame) - Cardinality(to_remove)]_vars

\* A dummy was removed and the table is back to its original rows
C7_Witness ==
    /\ pc = "idle"
    /\ outcome = "ok"
    /\ notices # <<>>
    /\ notices[Len(notices)].kind = "removed"
    /\ notices[Len(notices)].to_remove # {}
    /\ NoDummyRows(zmat.frame)
    /\ DOMAIN zmat.has_dummies = {}

(***************************************************************************)
(* C8                                                                      *)
(***************************************************************************)
\* With the actual_d recorded for k, the b, a, d of k are still collinear in
\* cartesian
StillDegenerate(z, cartesian, k) ==
    _jit_cross(VSub(_get_position(cartesian, loc(z.frame, k).a),
                    _get_position(cartesian, loc(z.frame, k).b)),
               VSub(_get_position(cartesian, z.has_dummies[k].actual_d),
                    _get_position(cartesian, loc(z.frame, k).a))) = zeros

\* z converts and has no removable dummy: has_dummies is empty, or each of its
\* atoms still has a degenerate original triple
NothingRemovableIn(z, c) ==
    /\ ~c.raised
    /\ \A k \in DOMAIN z.has_dummies :
          /\ k \in ids(z.frame)
          /\ {loc(z.frame, k).a, loc(z.frame, k).b, z.has_dummies[k].actual_d}
                \subseteq cart_ids(c.cartesian)
          /\ StillDegenerate(z, c.cartesian, k)

NothingRemovable(z) == NothingRemovableIn(z, get_cartesian(z.frame, NaNVec))

\* This step is a call of _remove_dummies(inplace=True): by subs (line 560),
\* or by the caller
RemoveDummiesStep ==
    \/ pc = "remove"
    \/ pc = "idle" /\ ~has_symbols(zmat.frame) /\ nops' = nops

\* C8: _remove_dummies() on a Zmat that converts and has no removable dummy
\* is a no-op: it emits no notice, and rows, values and has_dummies of the
\* Zmat it works on are as before.
C8_NothingRemovableNoOp ==
    [][(RemoveDummiesStep /\ NothingRemovable(Worked)) =>
          /\ out'.frame = Worked.frame
          /\ out'.has_dummies = Worked.has_dummies
          /\ pc = "idle" => zmat' = zmat /\ notices' = <<>>
          /\ pc = "remove" => notices' = notices]_vars

\* The caller ran _remove_dummies on a Zmat whose dummy is still needed
C8_Witness ==
    /\ pc = "idle"
    /\ outcome = "ok"
    /\ checked = <<>>
    /\ notices = <<>>
    /\ conv.frame = zmat.frame
    /\ DOMAIN zmat.has_dummies # {}
    /\ NothingRemovable(zmat)

(***************************************************************************)
(* C9                                                                      *)
(***************************************************************************)
\* C9: with dummy_manipulation_allowed false no dummy is ever inserted or
\* removed and no notice emitted; a subs that checks and whose conversion
\* signals a singularity ends with the InvalidReference of that conversion
\* (the failing atom's id, its b, a, d, the Cartesian built so far), the
\* substituted table untouched.
C9_RawFailurePropagates ==
    ~zmat.dummy_manipulation_allowed =>
        /\ pc = "idle" /\ depth = 0 /\ notices = <<>>
        /\ DOMAIN zmat.has_dummies = {} /\ DOMAIN out.has_dummies = {}
        /\ NoDummyRows(zmat.frame) /\ NoDummyRows(out.frame)
        /\ (checked # <<>> /\ conv.err = ERR_CODE_InvalidReference) =>
              /\ conv.frame = checked
              /\ out.frame = checked
              /\ outcome = "InvalidReference"
              /\ exc.raised
              /\ exc.i = checked[FailedAt].id
              /\ exc.b = checked[FailedAt].b
              /\ exc.a = checked[FailedAt].a
              /\ exc.d = checked[FailedAt].d
              /\ exc.already_built_cartesian =
                    [k \in 1..conv.row |->
                        [id |-> checked[k].id, atom |-> checked[k].atom,
                         pos |-> conv.positions[k]]]

\* A checked subs with recovery disabled ended with the singularity failure
C9_Witness ==
    /\ ~zmat.dummy_manipulation_allowed
    /\ checked # <<>>
    /\ outcome = "InvalidReference"
    /\ exc.raised
    /\ conv.row >= 3

(***************************************************************************)
(* C10                                                                     *)
(***************************************************************************)
\* Table(angles, dihedrals) with the dihedral reference of the row at position
\* pos naming atom 3 (fifth and last row): a forward reference
ForwardTable(angles, dihedrals, pos) ==
    [Table(angles, dihedrals) EXCEPT ![pos].d = 3]

\* The rows given the forward reference: atom 4 (second row), atom 5 (fourth)
ForwardRows == {2, 4}

\* __init__ (lines 75-114) takes frame and metadata as they are given: the
\* caller hands over a table with a forward reference and, as
\* last_valid_cartesian, the Cartesian the table was built from
InitForward ==
    /\ \E angles \in InitAngles, pos \in ForwardRows, allowed \in BOOLEAN :
          zmat = [frame |-> ForwardTable(angles, InitDihedrals, pos),
                  has_dummies |-> <<>>,
                  last_valid_cartesian |->
                      get_cartesian(Table(<<0, 90, 90, 90>>, InitDihedrals),
                                    NaNVec).cartesian,
                  dummy_manipulation_allowed |-> allowed]
    /\ out = zmat
    /\ pc = "idle"
    /\ exc = NoException
    /\ outcome = "ok"
    /\ notices = <<>>
    /\ conv = NoConv
    /\ depth = 0
    /\ orig = [k \in 1..Len(zmat.frame) |-> <<zmat.frame[k].id, zmat.frame[k].atom>>]
    /\ checked = <<>>
    /\ nops = 0
    /\ aliased = {}
    /\ called = "none"

SpecForward == InitForward /\ [][Next]_vars

\* The rows the last call of the builder went through
RowsVisited ==
    IF conv.err = ERR_CODE_InvalidReference THEN FailedAt ELSE Len(conv.frame)

\* C10: a table with a forward reference is rejected before the kernel is
\* called for any atom, and the builder never reads the position of a row it
\* has not computed yet: no call of the builder goes through a row that names
\* itself or a later row.
C10_ForwardReferenceRejected ==
    conv.frame # <<>> =>
        LET zm == change_numbering(conv.frame)
        IN \A k \in 1..RowsVisited : \A j \in {zm[k].b, zm[k].a, zm[k].d} :
              j >= keys_below_are_abs_refs => j < k - 1

(***************************************************************************)
(* Copies.  A Zmat holds two objects that are written in place: _frame     *)
(* (the table with its values) and _metadata (has_dummies,                 *)
(* last_valid_cartesian, dummy_manipulation_allowed).  Two Zmat that hold  *)
(* the same object both show what is written to it.  Below, x is the Zmat  *)
(* a call works on in place, other a second Zmat the caller holds, and     *)
(* aliases the parts of x that are the very objects other holds; a call    *)
(* gives [r, other, aliases]: its Result and the other Zmat and the        *)
(* aliases after it.                                                       *)
(***************************************************************************)
Parts == {"_frame", "_metadata"}

\* __init__ with self._frame = frame in place of line 93
aliases_of_copy_keeping_frame == {"_frame"}

\* The parts of self.copy() that are objects of self: copy (lines 116-119)
\* hands self._frame and self._metadata to __init__, which keeps frame.copy()
\* (line 93) and copy.deepcopy(_metadata) (line 102)
aliases_of_copy == {}

\* What other shows once x has become x1; rebound: the call replaced x._frame
\* by a new frame (line 497) and wrote nothing into the one it held
seen_by_other(other, x1, aliases, rebound) ==
    [other EXCEPT
        !.frame = IF "_frame" \in aliases /\ ~rebound THEN x1.frame ELSE @,
        !.has_dummies = IF "_metadata" \in aliases THEN x1.has_dummies ELSE @,
        !.last_valid_cartesian =
            IF "_metadata" \in aliases THEN x1.last_valid_cartesian ELSE @]

Done(r, other, aliases) == [r |-> r, other |-> other, aliases |-> aliases]

has_inserted(r) == \E k \in 1..Len(r.notices) : r.notices[k].kind = "inserted"

aliases_after(r, aliases) ==
    IF has_inserted(r) THEN aliases \ {"_frame"} ELSE aliases

RECURSIVE insert_dummy_zmat_inplace(_, _, _, _, _, _)
RECURSIVE insert_dummy_zmat_recursion(_, _, _, _, _)

\* x._insert_dummy_zmat(exception, inplace=True), lines 502-513, with the calls
\* of itself; fuel bounds their number
insert_dummy_zmat_inplace(x, other, aliases, exception, garbage, fuel) ==
    insert_dummy_zmat_recursion(_insert_dummy_zmat(x, exception, garbage),
                                other, aliases, garbage, fuel)

\* r is what the toggle and the conversion of one call gave (lines 504-512)
insert_dummy_zmat_recursion(r, other, aliases, garbage, fuel) ==
    IF r.status = "recurse" /\ fuel > 0
    THEN [insert_dummy_zmat_inplace(
              r.z, seen_by_other(other, r.z, aliases, has_inserted(r)),
              aliases_after(r, aliases), r.exception, garbage, fuel - 1)
          EXCEPT !.r.notices = r.notices \o @]
    ELSE Done(r, seen_by_other(other, r.z, aliases, has_inserted(r)),
              aliases_after(r, aliases))

\* x._remove_dummies(inplace=True), r being what it gave
remove_dummies_done(r, other, aliases) ==
    Done(r, seen_by_other(other, r.z, aliases, FALSE), aliases)

remove_dummies_inplace_on(x, other, aliases, garbage) ==
    remove_dummies_done(_remove_dummies(x, garbage), other, aliases)

\* _manipulate_dummies(exception, inplace=True), lines 559-560; i is what
\* line 559 gave
manipulate_dummies_removal(i, garbage) ==
    IF i.r.status # "ok" THEN i
    ELSE [remove_dummies_inplace_on(i.r.z, i.other, i.aliases, garbage)
          EXCEPT !.r.notices = i.r.notices \o @]

manipulate_dummies_inplace(x, other, aliases, exception, garbage, fuel) ==
    manipulate_dummies_removal(
        insert_dummy_zmat_inplace(x, other, aliases, exception, garbage, fuel),
        garbage)

\* The copy of a copy holds an object of self if both copies kept it
manipulate_dummies_copy(x, other, exception, garbage, fuel) ==
    manipulate_dummies_removal(
        insert_dummy_zmat_inplace(copy(copy(x)), other, aliases_of_copy,
                                  exception, garbage, fuel),
        garbage)

\* subs (lines 362-396) once out = self.copy() was substituted to x0 and its
\* get_cartesian gave c
subs_copy_checked(x0, other0, aliases, c, garbage, fuel) ==
    IF ~c.raised
    THEN Done(Result([x0 EXCEPT !.last_valid_cartesian = c.cartesian], "ok",
                     NoException, <<>>, ConvRec(x0.frame, c)),
              seen_by_other(other0, [x0 EXCEPT !.last_valid_cartesian = c.cartesian],
                            aliases, FALSE),
              aliases)
    ELSE IF x0.dummy_manipulation_allowed
    THEN manipulate_dummies_inplace(x0, other0, aliases, InvalidReference(c),
                                    garbage, fuel)
    ELSE Done(Result(x0, "InvalidReference", InvalidReference(c), <<>>,
                     ConvRec(x0.frame, c)), other0, aliases)

subs_copy(x0, other, aliases, garbage, fuel) ==
    IF has_symbols(x0.frame)
    THEN Done(Result(x0, "ok", NoException, <<>>, <<>>),
              seen_by_other(other, x0, aliases, FALSE), aliases)
    ELSE subs_copy_checked(x0, seen_by_other(other, x0, aliases, FALSE), aliases,
                           get_cartesian(x0.frame, garbage), garbage, fuel)

\* The values the caller writes into a cell; theta makes the entry symbolic
WrittenFor(col) == ValuesFor(col) \cup {theta}

\* The cells the caller writes
WrittenCells == {<<1, "bond">>, <<5, "angle">>}

\* How a call on zmat with inplace=False ends: the caller holds what was
\* returned as out; after an exception it holds what it held
returned(res) ==
    /\ zmat' = res.other
    /\ out' = IF res.r.status = "ok" THEN res.r.z ELSE out
    /\ aliased' = IF res.r.status = "ok" THEN res.aliases ELSE aliased
    /\ outcome' = res.r.status
    /\ exc' = res.r.exception
    /\ notices' = res.r.notices
    /\ conv' = IF res.r.converted = <<>> THEN conv ELSE res.r.converted
    /\ called' = "copy"
    /\ UNCHANGED <<pc, depth, orig, checked, nops>>

\* How a call on out, or on zmat, with inplace=True ends
worked_on_out(res) ==
    /\ zmat' = res.other
    /\ out' = res.r.z
    /\ aliased' = res.aliases
    /\ outcome' = res.r.status
    /\ exc' = res.r.exception
    /\ notices' = res.r.notices
    /\ conv' = IF res.r.converted = <<>> THEN conv ELSE res.r.converted
    /\ called' = "out"
    /\ UNCHANGED <<pc, depth, orig, checked, nops>>

worked_on_zmat(res) ==
    /\ zmat' = res.r.z
    /\ out' = res.other
    /\ aliased' = res.aliases
    /\ outcome' = res.r.status
    /\ exc' = res.r.exception
    /\ notices' = res.r.notices
    /\ conv' = IF res.r.converted = <<>> THEN conv ELSE res.r.converted
    /\ called' = "zmat"
    /\ UNCHANGED <<pc, depth, orig, checked, nops>>

\* zmat.unsafe_loc[i, col] = value: written into zmat._frame
write_cell(i, col, value) ==
    /\ nops < MaxOps
    /\ i \in ids(zmat.frame)
    /\ loc(zmat.frame, i)[col] # value
    /\ zmat' = [zmat EXCEPT !.frame[get_loc(zmat.frame, i)][col] = value]
    /\ out' = seen_by_other(
                  out, [zmat EXCEPT !.frame[get_loc(zmat.frame, i)][col] = value],
                  aliased, FALSE)
    /\ nops' = nops + 1
    /\ called' = "zmat"
    /\ UNCHANGED <<pc, exc, outcome, notices, conv, depth, orig, checked, aliased>>

\* zmat.get_cartesian(): line 588 renumbers a copy of self
call_get_cartesian_given(c) ==
    /\ zmat' = seen_by_other(zmat, [zmat EXCEPT !.frame = change_numbering(@)],
                            aliases_of_copy, FALSE)
    /\ outcome' = IF c.raised THEN "InvalidReference" ELSE "ok"
    /\ exc' = IF c.raised THEN InvalidReference(c) ELSE NoException
    /\ conv' = ConvRec(zmat.frame, c)
    /\ notices' = <<>>
    /\ called' = "copy"
    /\ UNCHANGED <<out, pc, depth, orig, checked, nops, aliased>>

call_get_cartesian(garbage) ==
    /\ ~has_symbols(zmat.frame)
    /\ call_get_cartesian_given(get_cartesian(zmat.frame, garbage))

\* out = zmat.change_numbering(): lines 417-437 write into out = self.copy()
call_change_numbering ==
    /\ ~has_symbols(zmat.frame)
    /\ returned(Done(Result([copy(zmat) EXCEPT !.frame = change_numbering(@)],
                            "ok", NoException, <<>>, <<>>),
                     seen_by_other(zmat, [zmat EXCEPT !.frame = change_numbering(@)],
                                   aliases_of_copy, FALSE),
                     aliases_of_copy))

\* out = zmat.subs(symb_expr, value)
call_subs(symb_expr, value, garbage) ==
    /\ has_symbols(zmat.frame)
    /\ returned(subs_copy([copy(zmat) EXCEPT !.frame = substitute(@, symb_expr, value)],
                          zmat, aliases_of_copy, garbage, MaxDepth))

\* The InvalidReference e of x.get_cartesian(), c being what it gave
raises(c) == c.raised

\* out = zmat._insert_dummy_zmat(e, inplace=False), e raised by
\* zmat.get_cartesian()
call_insert_dummy_zmat_given(c, garbage) ==
    /\ raises(c)
    /\ returned(insert_dummy_zmat_inplace(copy(zmat), zmat, aliases_of_copy,
                                          InvalidReference(c), garbage, MaxDepth))

call_insert_dummy_zmat(garbage) ==
    /\ ~has_symbols(zmat.frame)
    /\ call_insert_dummy_zmat_given(get_cartesian(zmat.frame, garbage), garbage)

\* out = zmat._remove_dummies(inplace=False)
call_remove_dummies(garbage) ==
    /\ ~has_symbols(zmat.frame)
    /\ returned(remove_dummies_inplace_on(copy(zmat), zmat, aliases_of_copy, garbage))

\* out = zmat._manipulate_dummies(e, inplace=False): lines 562-564 copy three
\* times
call_manipulate_dummies_given(c, garbage) ==
    /\ raises(c)
    /\ returned(manipulate_dummies_copy(copy(zmat), zmat, InvalidReference(c),
                                        garbage, MaxDepth))

call_manipulate_dummies(garbage) ==
    /\ ~has_symbols(zmat.frame)
    /\ call_manipulate_dummies_given(get_cartesian(zmat.frame, garbage), garbage)

\* out._insert_dummy_zmat(e, inplace=True), e raised by out.get_cartesian()
out_insert_dummy_zmat_given(c, garbage) ==
    /\ raises(c)
    /\ worked_on_out(insert_dummy_zmat_inplace(out, zmat, aliased,
                                               InvalidReference(c), garbage, MaxDepth))

out_insert_dummy_zmat(garbage) ==
    /\ ~has_symbols(out.frame)
    /\ out_insert_dummy_zmat_given(get_cartesian(out.frame, garbage), garbage)

\* out._remove_dummies(inplace=True)
out_remove_dummies(garbage) ==
    /\ ~has_symbols(out.frame)
    /\ DOMAIN out.has_dummies # {}
    /\ worked_on_out(remove_dummies_inplace_on(out, zmat, aliased, garbage))

\* zmat._insert_dummy_zmat(e, inplace=True), e raised by zmat.get_cartesian()
zmat_insert_dummy_zmat_given(c, garbage) ==
    /\ raises(c)
    /\ worked_on_zmat(insert_dummy_zmat_inplace(zmat, out, aliased,
                                                InvalidReference(c), garbage, MaxDepth))

zmat_insert_dummy_zmat(garbage) ==
    /\ ~has_symbols(zmat.frame)
    /\ zmat_insert_dummy_zmat_given(get_cartesian(zmat.frame, garbage), garbage)

\* zmat._remove_dummies(inplace=True)
zmat_remove_dummies(garbage) ==
    /\ ~has_symbols(zmat.frame)
    /\ DOMAIN zmat.has_dummies # {}
    /\ worked_on_zmat(remove_dummies_inplace_on(zmat, out, aliased, garbage))

\* The calls that work on a copy
CopyingCall ==
    \/ \E garbage \in GarbageFor(zmat.frame) : call_get_cartesian(garbage)
    \/ call_change_numbering
    \/ \E value \in ValuesFor(symbolic_column(zmat.frame)),
          garbage \in GarbageFor(zmat.frame) : call_subs(theta, value, garbage)
    \/ \E garbage \in GarbageFor(zmat.frame) : call_insert_dummy_zmat(garbage)
    \/ \E garbage \in GarbageFor(zmat.frame) : call_remove_dummies(garbage)
    \/ \E garbage \in GarbageFor(zmat.frame) : call_manipulate_dummies(garbage)

\* The insertions and removals in place on what a copying call returned
CallOnOut ==
    \/ \E garbage \in GarbageFor(out.frame) : out_insert_dummy_zmat(garbage)
    \/ \E garbage \in GarbageFor(out.frame) : out_remove_dummies(garbage)

\* The insertions and removals in place on the Zmat the copy was taken of
CallOnZmat ==
    \/ \E garbage \in GarbageFor(zmat.frame) : zmat_insert_dummy_zmat(garbage)
    \/ \E garbage \in GarbageFor(zmat.frame) : zmat_remove_dummies(garbage)

NextCopies ==
    \/ \E cell \in WrittenCells : \E value \in WrittenFor(cell[2]) :
          write_cell(cell[1], cell[2], value)
    \/ CopyingCall
    \/ CallOnOut
    \/ CallOnZmat

\* The caller holds one Zmat, of the bent molecule
InitCopies ==
    /\ Init
    /\ zmat.frame = Table(<<0, 90, 90, 90>>, InitDihedrals)

SpecCopies == InitCopies /\ [][NextCopies]_vars

NewNotices ==
    IF pc = "idle" THEN notices'
    ELSE SubSeq(notices', Len(notices) + 1, Len(notices'))

\* The ids the text of a warning holds: lines 481-483 format i and dummy_d,
\* lines 550-551 format to_remove
NamedIn(n) == IF n.kind = "inserted" THEN {n.i, n.dummy_d} ELSE n.to_remove

\* C12: every step that inserts a dummy for an atom i, and every step that
\* removes the dummy of an atom i, emits a warning that names i and the id of
\* that dummy.
C12_NoticeNamesAtomAndDummy ==
    [][/\ \A i \in DOMAIN out'.has_dummies \ DOMAIN Worked.has_dummies :
             \E k \in 1..Len(NewNotices) :
                /\ NewNotices[k].kind = "inserted"
                /\ {i, out'.has_dummies[i].dummy_d} \subseteq NamedIn(NewNotices[k])
       /\ \A i \in DOMAIN Worked.has_dummies \ DOMAIN out'.has_dummies :
             \E k \in 1..Len(NewNotices) :
                /\ NewNotices[k].kind = "removed"
                /\ {i, Worked.has_dummies[i].dummy_d} \subseteq NamedIn(NewNotices[k])]_vars

(***************************************************************************)
(* C13                                                                     *)
(***************************************************************************)
\* The table positions the builder's last call gave a position
Placed ==
    1..(IF conv.err = ERR_CODE_InvalidReference THEN conv.row ELSE Len(conv.frame))

\* The unit vector from the bond reference to the angle reference of row k
ba_of(k) == _jit_normalize(VSub(RefPos(k, 2), RefPos(k, 1)))

\* C13: a row at an angle of exactly 180 degrees (0 degrees) that was given a
\* position lies at vb - bond * ba (vb + bond * ba), whatever its dihedral and
\* whatever its dihedral reference; and the builder stops at such a row only
\* when BA is zero, so a dihedral reference collinear with the bond and angle
\* references does not keep the row from being placed.
C13_StraightAngleAlongBA ==
    /\ \A k \in Placed :
          /\ conv.frame[k].angle = 180 =>
                conv.positions[k] =
                    VAdd(RefPos(k, 1), VScale(conv.frame[k].bond, VScale(-1, ba_of(k))))
          /\ conv.frame[k].angle = 0 =>
                conv.positions[k] =
                    VAdd(RefPos(k, 1), VScale(conv.frame[k].bond, ba_of(k)))
    /\ (conv.err = ERR_CODE_InvalidReference /\ conv.frame[FailedAt].angle \in {0, 180})
          => BAZero(FailedAt)

\* A row at 180 degrees whose dihedral reference is collinear with its bond and
\* angle references was placed, beside a row at 0 degrees and a row at 180
\* degrees whose references are not collinear
C13_Witness ==
    /\ \E k \in Placed :
          /\ conv.frame[k].angle = 180 /\ N1Zero(k)
          /\ conv.frame[k].bond # 0 /\ ~IsNaNVec(conv.positions[k])
    /\ \E k \in Placed : conv.frame[k].angle = 180 /\ ~N1Zero(k)
    /\ \E k \in Placed : conv.frame[k].angle = 0 /\ conv.frame[k].bond # 0

(***************************************************************************)
(* C14                                                                     *)
(***************************************************************************)
FixedPoints == {_jit_absolute_refs(j) : j \in {origin, e_x, e_y, e_z}}

FirstThreePlaced == {k \in Placed : k <= 3}

\* C14 as stated: every position the builder computes for one of the first three
\* rows of the table is a fixed point of the absolute reference frame.
C14_FirstThreeAtFixedPoints ==
    \A k \in FirstThreePlaced : conv.positions[k] \in FixedPoints

\* What the kernel returns for row k of the table the builder was last called
\* for, from the reference positions the builder held
KernelAt(k) ==
    _jit_calc_single_position(
        <<RefPos(k, 1), RefPos(k, 2), RefPos(k, 3)>>,
        zmat_values_of(change_numbering(conv.frame)), k - 1)

\* C14: the position of each of the first three rows is what the kernel gives
\* for the bond, angle and dihedral stored in the row, with the sentinel
\* references of the row resolved to the fixed points of the absolute frame; it
\* lies at the stored bond length from the row's bond reference.
C14_FirstThreeByKernel ==
    \A k \in FirstThreePlaced :
        /\ KernelAt(k) = <<ERR_CODE_OK, conv.positions[k]>>
        /\ LET v == VSub(conv.positions[k], RefPos(k, 1))
           IN ~IsNaNVec(v) => VDot(v, v) = conv.frame[k].bond * conv.frame[k].bond

\* The third row, at 180 degrees to sentinel references, was placed at a point
\* that is no fixed point of the frame
C14_Witness ==
    /\ 3 \in FirstThreePlaced
    /\ conv.frame[3].angle = 180
    /\ conv.frame[3].d < keys_below_are_abs_refs
    /\ ~IsNaNVec(conv.positions[3])
    /\ conv.positions[3] \notin FixedPoints

(***************************************************************************)
(* C15                                                                     *)
(***************************************************************************)
\* A chain of five atoms, each bound at a right angle to the one before it; no
\* bond is zero and no reference triple is collinear
ChainTable(bonds, dihedrals) ==
    << Row(2, "C", origin, e_z, e_x, bonds[1], 90, dihedrals[1]),
       Row(4, "C", 2, origin, e_z, bonds[2], 90, dihedrals[2]),
       Row(1, "C", 4, 2, origin, bonds[3], 90, dihedrals[3]),
       Row(5, "H", 1, 4, 2, bonds[4], 90, dihedrals[4]),
       Row(3, "H", 5, 1, 4, bonds[5], 90, dihedrals[5]) >>

ChainBonds == {<<1, 1, 1, 1, 1>>, <<2, 1, 2, 1, 2>>}
ChainDihedrals == [1..5 -> {0, 90, 180, 270}]

InitChain ==
    /\ \E bonds \in ChainBonds, dihedrals \in ChainDihedrals :
          zmat = [frame |-> ChainTable(bonds, dihedrals),
                  has_dummies |-> <<>>,
                  last_valid_cartesian |->
                      get_cartesian(ChainTable(bonds, dihedrals), NaNVec).cartesian,
                  dummy_manipulation_allowed |-> TRUE]
    /\ out = zmat
    /\ pc = "idle"
    /\ exc = NoException
    /\ outcome = "ok"
    /\ notices = <<>>
    /\ conv = NoConv
    /\ depth = 0
    /\ orig = [k \in 1..Len(zmat.frame) |-> <<zmat.frame[k].id, zmat.frame[k].atom>>]
    /\ checked = <<>>
    /\ nops = 0
    /\ aliased = {}
    /\ called = "none"

NextChain == \E garbage \in GarbageFor(zmat.frame) : call_get_cartesian(garbage)

SpecChain == InitChain /\ [][NextChain]_vars

\* No row of the table the builder was last called for is degenerate: no bond
\* is zero, no angle is 0 or 180 degrees, BA and BA x AD are not zero
NonDegenerate ==
    /\ conv.frame # <<>>
    /\ conv.err = ERR_CODE_OK
    /\ \A k \in 1..Len(conv.frame) :
          /\ conv.frame[k].bond # 0
          /\ conv.frame[k].angle \notin {0, 180}
          /\ ~BAZero(k) /\ ~N1Zero(k)

\* The Cartesian the last call of get_cartesian returned
Converted == create_cartesian(conv.frame, conv.positions, Len(conv.frame))

\* The <<bond, angle, dihedral>> of row k derived from the returned Cartesian
\* against the row's own b, a, d
Rederived(k) ==
    _calculate_zmat_values(
        Converted, <<conv.frame[k].id, conv.frame[k].b, conv.frame[k].a, conv.frame[k].d>>)

DummyRows(frame) == {frame[k].id : k \in {j \in 1..Len(frame) : frame[j].atom = "X"}}

\* has_dummies and the table of z agree: every key is an atom of the table
\* whose d is the recorded dummy, the recorded dummy is a row labelled as a
\* dummy, and every dummy row is recorded for exactly one key
DummyMapConsistent(z) ==
    /\ \A i \in DOMAIN z.has_dummies :
          /\ i \in ids(z.frame)
          /\ loc(z.frame, i).d = z.has_dummies[i].dummy_d
          /\ z.has_dummies[i].dummy_d \in DummyRows(z.frame)
    /\ \A x \in DummyRows(z.frame) :
          Cardinality({i \in DOMAIN z.has_dummies : z.has_dummies[i].dummy_d = x}) = 1

\* C16: after every call, also one that worked in place and ended by raising
\* InvalidReference, has_dummies and the table agree in the Zmat the caller
\* holds and in the one the call worked on.
C16_DummyMapConsistent ==
    DummyMapConsistent(zmat) /\ DummyMapConsistent(out)

(***************************************************************************)
(* C17                                                                     *)
(***************************************************************************)
\* Every b, a, d of frame that is no absolute reference names a row before its own
TopologicalOrder(frame) ==
    \A k \in 1..Len(frame) : \A j \in {frame[k].b, frame[k].a, frame[k].d} :
        j >= keys_below_are_abs_refs => \E e \in 1..(k - 1) : frame[e].id = j

\* The table with atom 1 on the line of atoms 2 and 4, and with another dihedral
\* than in the bent table
StraightTable == Table(<<0, 0, 90, 90>>, <<0, 90, 90, 90>>)

\* The bent table
BentTable == Table(<<0, 90, 90, 90>>, InitDihedrals)

\* The caller holds one Zmat and works on it in place.  The straight table is
\* what subs(..., perform_checks=False) returns for the bent one: lines 388-395
\* are skipped and the metadata, with last_valid_cartesian, is the bent table's
InitInPlace ==
    /\ \E t \in {BentTable, StraightTable}, allowed \in BOOLEAN :
          zmat = [frame |-> t,
                  has_dummies |-> <<>>,
                  last_valid_cartesian |-> get_cartesian(BentTable, NaNVec).cartesian,
                  dummy_manipulation_allowed |-> allowed]
    /\ out = zmat
    /\ pc = "idle"
    /\ exc = NoException
    /\ outcome = "ok"
    /\ notices = <<>>
    /\ conv = NoConv
    /\ depth = 0
    /\ orig = [k \in 1..Len(zmat.frame) |-> <<zmat.frame[k].id, zmat.frame[k].atom>>]
    /\ checked = <<>>
    /\ nops = 0
    /\ aliased = {}
    /\ called = "none"

InPlaceCells == {<<1, "angle">>, <<5, "angle">>}

NextInPlace ==
    \/ \E cell \in InPlaceCells : \E value \in ValuesFor(cell[2]) :
          write_cell(cell[1], cell[2], value)
    \/ CallOnZmat

SpecInPlace == InitInPlace /\ [][NextInPlace]_vars

\* C17: after any sequence of insertions and removals of dummies every
\* reference of every row that is no absolute reference names an atom that is in
\* the table before that row; in particular no row names a removed dummy.
C17_ReferencesStayEarlier ==
    TopologicalOrder(zmat.frame) /\ TopologicalOrder(out.frame)

(***************************************************************************)
(* C18                                                                     *)
(***************************************************************************)
UniqueIds(frame) ==
    \A j, k \in 1..Len(frame) : frame[j].id = frame[k].id => j = k

\* The ids of the atoms the table started with
RealIds == {orig[k][1] : k \in 1..Len(orig)}

\* C18: the id of a dummy inserted by a step is the largest id of the table
\* plus one, is the id of no row the table had, real or dummy, and of no atom
\* of the partial Cartesian of the exception handled; after every step no two
\* rows of a table have the same id and no dummy row has the id of a real atom.
C18_DummyIdsFresh ==
    [][/\ \A i \in DOMAIN out'.has_dummies \ DOMAIN Worked.has_dummies :
             LET dummy_d == out'.has_dummies[i].dummy_d
             IN /\ dummy_d = max_index(Worked.frame) + 1
                /\ dummy_d \notin ids(Worked.frame)
                /\ dummy_d \notin cart_ids(exc.already_built_cartesian)
                /\ loc(out'.frame, dummy_d).atom = "X"
       /\ UniqueIds(out'.frame) /\ UniqueIds(zmat'.frame)
       /\ DummyRows(out'.frame) \cap RealIds = {}
       /\ DummyRows(zmat'.frame) \cap RealIds = {}]_vars

\* Two dummies stand in the table, the second inserted while the first was there
C18_Witness ==
    /\ Cardinality(DummyRows(out.frame)) >= 2
    /\ Len(NoticesOf("inserted")) >= 1
    /\ \A i \in DOMAIN out.has_dummies : out.has_dummies[i].dummy_d \in DummyRows(out.frame)

(***************************************************************************)
(* C19                                                                     *)
(***************************************************************************)
\* The step is one call of out._insert_dummy_zmat(exc, inplace=True)
RecoveryStep == pc = "insert" /\ depth' = depth + 1

\* The call removed the dummy of atom i: d is the recorded original again, the
\* dummy row is gone, the entry is cleared, and nothing was inserted
RemovedFor(i) ==
    /\ i \notin DOMAIN out'.has_dummies
    /\ loc(out'.frame, i).d = out.has_dummies[i].actual_d
    /\ out.has_dummies[i].dummy_d \notin ids(out'.frame)
    /\ DummyRows(out'.frame) \subseteq DummyRows(out.frame)
    /\ DOMAIN out'.has_dummies \subseteq DOMAIN out.has_dummies

\* The call inserted exactly one dummy, for atom i
InsertedFor(i) ==
    /\ DOMAIN out'.has_dummies = DOMAIN out.has_dummies \cup {i}
    /\ Len(out'.frame) = Len(out.frame) + 1
    /\ DummyRows(out'.frame) = DummyRows(out.frame) \cup {out'.has_dummies[i].dummy_d}
    /\ loc(out'.frame, i).d = out'.has_dummies[i].dummy_d

\* The call converted the table it left, and a failure of that conversion is
\* handed to the next call of the same method
Reattempted ==
    /\ conv'.frame = out'.frame
    /\ conv'.err = ERR_CODE_InvalidReference =>
          /\ pc' = "insert"
          /\ exc'.raised
          /\ exc'.i = conv'.frame[conv'.row + 1].id

\* C19: a call of _insert_dummy_zmat for an atom that is a key of has_dummies
\* removes that atom's dummy and inserts none; a call for an atom that is no
\* key inserts exactly one dummy; either way the call then converts the table
\* again and hands a new failure to the same method.
C19_ToggleThenRetry ==
    [][RecoveryStep =>
          /\ IF exc.i \in DOMAIN out.has_dummies
             THEN RemovedFor(exc.i)
             ELSE InsertedFor(exc.i)
          /\ Reattempted]_vars

(***************************************************************************)
(* C20                                                                     *)
(***************************************************************************)
\* The Zmat the call of this step worked on, as the call leaves it
WorkedAfter == IF called' = "zmat" THEN zmat' ELSE out'

\* The Cartesian of frame, converted where no row is read before it is written
CartesianOf(frame) == get_cartesian(frame, NaNVec)

\* The values of atom i derived against b, a and the recorded actual_d from the
\* conversion of the table as it is before the removal, the dummy still its d
ValuesBeforeRemoval(i) ==
    _calculate_zmat_values(
        CartesianOf(Worked.frame).cartesian,
        <<i, loc(Worked.frame, i).b, loc(Worked.frame, i).a,
          Worked.has_dummies[i].actual_d>>)

\* Every atom that is no dummy has the same position in both Cartesians
SamePositions(before, after) ==
    \A k \in 1..Len(after) :
        after[k].atom # "X" => _get_position(before, after[k].id) = after[k].pos

\* C20: a removal gives every atom whose dummy it removes the bond, angle and
\* dihedral derived against its original d from the positions of the table
\* converted with the dummy still in place; converted right after the removal,
\* every atom that is no dummy is where it was converted right before it.
C20_RemovalKeepsPositions ==
    [][(RemovalStep /\ ~CartesianOf(Worked.frame).raised) =>
          /\ \A i \in notices'[Len(notices')].to_remove :
                <<loc(WorkedAfter.frame, i).bond, loc(WorkedAfter.frame, i).angle,
                  loc(WorkedAfter.frame, i).dihedral>> = ValuesBeforeRemoval(i)
          /\ ~CartesianOf(WorkedAfter.frame).raised
          /\ SamePositions(CartesianOf(Worked.frame).cartesian,
                           CartesianOf(WorkedAfter.frame).cartesian)]_vars

(***************************************************************************)
(* C21                                                                     *)
(***************************************************************************)
\* The keys of has_dummies of z whose b, a and recorded actual_d are not
\* collinear in the Cartesian of z's table
NotCollinearKeys(z) ==
    {k \in DOMAIN z.has_dummies :
        ~StillDegenerate(z, CartesianOf(z.frame).cartesian, k)}

\* _has_removable_dummies returns for z
Returns(z) == _has_removable_dummies(z, NaNVec).status = "ok"

\* C21: where _has_removable_dummies returns, it returns the keys of
\* has_dummies whose b, a and recorded original d are not collinear in the
\* Cartesian of the table, and nothing else; a call of _remove_dummies()
\* that removes dummies removes those of exactly these keys, and one that
\* returns without removing found none.
C21_RemovableExactly ==
    [][(RemoveDummiesStep /\ Returns(Worked)) =>
          /\ _has_removable_dummies(Worked, NaNVec).keys = NotCollinearKeys(Worked)
          /\ RemovalStep => notices'[Len(notices')].to_remove = NotCollinearKeys(Worked)
          /\ (~RemovalStep /\ outcome' = "ok") => NotCollinearKeys(Worked) = {}]_vars

\* _remove_dummies() has removed the dummies of the keys the check returned:
\* the builder's last call was the one of line 546, on the table that still had
\* the dummy rows, and the check now returns no key
C21_Witness ==
    /\ pc = "idle"
    /\ outcome = "ok"
    /\ notices # <<>>
    /\ notices[Len(notices)].kind = "removed"
    /\ notices[Len(notices)].to_remove # {}
    /\ notices[Len(notices)].to_remove \subseteq ids(conv.frame)
    /\ Len(conv.frame) > Len(zmat.frame)
    /\ Returns(zmat)
    /\ _has_removable_dummies(zmat, NaNVec).keys = {}

(***************************************************************************)
(* C22                                                                     *)
(***************************************************************************)
\* last_valid_cartesian of z is the Cartesian of z's table: the atoms of the
\* table, in its order, at the positions its conversion gives
CacheIsCurrent(z) ==
    /\ ~CartesianOf(z.frame).raised
    /\ z.last_valid_cartesian = CartesianOf(z.frame).cartesian

\* The caller holds one Zmat, writes into it, and calls the recovery on it:
\* _insert_dummy_zmat in place and on a copy, _manipulate_dummies on a copy
NextRecover ==
    \/ \E cell \in InPlaceCells : \E value \in ValuesFor(cell[2]) :
          write_cell(cell[1], cell[2], value)
    \/ \E garbage \in GarbageFor(zmat.frame) : zmat_insert_dummy_zmat(garbage)
    \/ \E garbage \in GarbageFor(zmat.frame) : call_insert_dummy_zmat(garbage)
    \/ \E garbage \in GarbageFor(zmat.frame) : call_manipulate_dummies(garbage)

SpecRecover == InitInPlace /\ [][NextRecover]_vars

\* C22: when _insert_dummy_zmat or _manipulate_dummies has returned, the
\* last_valid_cartesian of the Zmat it worked on (the returned copy, or the
\* Zmat itself when in place) holds exactly the ids of that Zmat's table, at
\* the positions a conversion of the table gives.
C22_CacheIsCurrent ==
    [][/\ (called' = "copy" /\ outcome' = "ok") => CacheIsCurrent(out')
       /\ (called' = "zmat" /\ nops' = nops /\ outcome' = "ok")
             => CacheIsCurrent(zmat')]_vars

(***************************************************************************)
(* Construction: __init__, copy, and the first last_valid_cartesian        *)
(*                                                                         *)
(* In SpecConstruct the variables hold the calls of the class that are     *)
(* running: orig is the sequence of their arguments (outermost first),     *)
(* zmat the instance the innermost __init__ works on, checked the          *)
(* instances waiting in get_cartesian for their copy, depth the number of  *)
(* running calls, out the instance the outermost call returned.            *)
(***************************************************************************)
_required_cols == {"atom", "b", "bond", "a", "angle", "d", "dihedral"}

\* The number of nested calls of the class at which the interpreter raises
\* RecursionError
MaxConstructions == 5

\* Lines 105-110: the defaults of the keys after last_valid_cartesian
other_defaults(_metadata) ==
    [k \in DOMAIN _metadata
           \cup {"has_dummies", "dummy_manipulation_allowed", "test_operators"} |->
        IF k \in DOMAIN _metadata THEN _metadata[k]
        ELSE IF k = "has_dummies" THEN <<>> ELSE TRUE]

\* An exception leaves every running call: no frame between __init__ and the
\* outermost caller catches one
construction_raises(name) ==
    /\ pc' = "done"
    /\ outcome' = name
    /\ UNCHANGED <<zmat, out, exc, notices, conv, depth, orig, checked, nops,
                   aliased, called>>

\* Lines 90-101: the column test, the copy of the frame, and self._metadata
\* as {} or as a deep copy of the argument
ZmatCore_init ==
    /\ pc = "__init__"
    /\ LET args == orig[Len(orig)]
       IN IF depth = MaxConstructions
          THEN construction_raises("RecursionError")
          ELSE IF ~(_required_cols \subseteq args.columns)
          THEN construction_raises("PhysicalMeaning")
          ELSE /\ zmat' = [frame |-> args.frame,
                           columns |-> args.columns,
                           _metadata |-> IF args.given THEN args._metadata ELSE <<>>]
               /\ checked' = IF depth = 0 THEN <<>> ELSE Append(checked, zmat)
               /\ depth' = depth + 1
               /\ pc' = "fill"
               /\ UNCHANGED <<out, exc, outcome, notices, conv, orig, nops,
                              aliased, called>>

\* Lines 103-104, 588, 417, 116-119: last_valid_cartesian is missing, so
\* self.get_cartesian() calls self.change_numbering(), which calls self.copy(),
\* which calls the class with self._frame and self._metadata as it is now
copy_in_change_numbering ==
    /\ pc = "get_cartesian"
    /\ orig' = Append(orig, [frame |-> zmat.frame,
                             columns |-> zmat.columns,
                             given |-> TRUE,
                             _metadata |-> zmat._metadata])
    /\ pc' = "__init__"
    /\ UNCHANGED <<zmat, out, exc, outcome, notices, conv, depth, checked, nops,
                   aliased, called>>

\* Lines 102-112.  With last_valid_cartesian missing the conversion is called.
\* With it present the other defaults are set and __init__ returns: to the
\* outermost caller, or as the copy into change_numbering (lines 419-437) and
\* get_cartesian (lines 589-613) of the instance that waits for it, whose
\* last_valid_cartesian is then assigned (line 104).
fill_missing_keys_with_defaults ==
    /\ pc = "fill"
    /\ IF "last_valid_cartesian" \notin DOMAIN zmat._metadata
       THEN /\ pc' = "get_cartesian"
            /\ UNCHANGED <<zmat, out, exc, outcome, notices, conv, depth, orig,
                           checked, nops, aliased, called>>
       ELSE LET self == [zmat EXCEPT !._metadata = other_defaults(@)]
            IN IF checked = <<>>
               THEN /\ zmat' = self
                    /\ out' = self
                    /\ pc' = "done"
                    /\ depth' = depth - 1
                    /\ UNCHANGED <<exc, outcome, notices, conv, orig, checked,
                                   nops, aliased, called>>
               ELSE \E garbage \in GarbageFor(self.frame) :
                      LET waiting == checked[Len(checked)]
                          c == convert_renumbered(
                                   waiting.frame, change_numbering(self.frame), garbage)
                      IN IF c.raised
                         THEN construction_raises("InvalidReference")
                         ELSE /\ zmat' = [waiting EXCEPT !._metadata =
                                            [k \in DOMAIN @ \cup {"last_valid_cartesian"} |->
                                                IF k = "last_valid_cartesian"
                                                THEN c.cartesian ELSE @[k]]]
                              /\ checked' = SubSeq(checked, 1, Len(checked) - 1)
                              /\ orig' = SubSeq(orig, 1, Len(orig) - 1)
                              /\ depth' = depth - 1
                              /\ pc' = "fill"
                              /\ UNCHANGED <<out, exc, outcome, notices, conv,
                                             nops, aliased, called>>

\* The _metadata a caller passes: every subset of the keys, with the values
\* a finished instance holds under them
given_metadata(frame, keys, allowed) ==
    [k \in keys |->
        IF k = "last_valid_cartesian" THEN CartesianOf(frame).cartesian
        ELSE IF k = "has_dummies" THEN <<>>
        ELSE IF k = "dummy_manipulation_allowed" THEN allowed
        ELSE TRUE]

InitConstruct ==
    /\ \E t \in InitTables \cup {BentTable, StraightTable},
          columns \in {_required_cols, _required_cols \ {"dihedral"}},
          given \in BOOLEAN,
          keys \in SUBSET {"last_valid_cartesian", "has_dummies",
                           "dummy_manipulation_allowed", "test_operators"},
          allowed \in BOOLEAN :
          /\ ~given => (keys = {} /\ allowed)
          /\ "dummy_manipulation_allowed" \notin keys => allowed
          /\ orig = <<[frame |-> t, columns |-> columns, given |-> given,
                       _metadata |-> given_metadata(t, keys, allowed)]>>
    /\ zmat = <<>>
    /\ out = <<>>
    /\ pc = "__init__"
    /\ exc = NoException
    /\ outcome = "ok"
    /\ notices = <<>>
    /\ conv = NoConv
    /\ depth = 0
    /\ checked = <<>>
    /\ nops = 0
    /\ aliased = {}
    /\ called = "none"

NextConstruct ==
    \/ ZmatCore_init
    \/ copy_in_change_numbering
    \/ fill_missing_keys_with_defaults

SpecConstruct == InitConstruct /\ [][NextConstruct]_vars

\* The outermost call got a table with all columns that can be placed, and no
\* _metadata
NoInternalState ==
    /\ ~orig[1].given
    /\ _required_cols \subseteq orig[1].columns
    /\ ~CartesianOf(orig[1].frame).raised

\* C23: a construction from a valid table without _metadata runs at most the
\* one further construction of the copy that its conversion relabels, never
\* ends in RecursionError, and returns an instance with an empty has_dummies,
\* dummy_manipulation_allowed True, and last_valid_cartesian equal to the
\* conversion of its table.
C23_ConstructsInOnePass ==
    NoInternalState =>
        /\ depth <= 2
        /\ outcome # "RecursionError"
        /\ pc = "done" =>
              /\ out._metadata.has_dummies = <<>>
              /\ out._metadata.dummy_manipulation_allowed
              /\ out._metadata.last_valid_cartesian = CartesianOf(out.frame).cartesian

====
